---------------------------- MODULE Spec2Model ----------------------------
(***************************************************************************)
(* Remote GPU job orchestration of the character generation API:           *)
(*   - RunPodManager   (src/src/services/runpod/pod_manager.py)            *)
(*   - ComfyUIClient   (src/src/services/comfyui/client.py)                *)
(*   - generate_image_task / generate_video_task                           *)
(*                     (src/src/services/comfyui/image_generator.py,       *)
(*                      src/src/services/comfyui/video_generator.py)       *)
(*                                                                         *)
(* One process, one asyncio event loop.  Every action below is the code    *)
(* that runs between two suspension points (awaits that really suspend) of *)
(* one background task.  The module-level singletons runpod_manager and    *)
(* comfyui_client are the shared state.                                    *)
(*                                                                         *)
(* Time.  The code reads two clocks, the wall clock (datetime.utcnow(), in  *)
(* refresh_pods) and the event loop's monotonic clock (loop.time(), in     *)
(* execute_workflow), and only to compute the difference to a stored       *)
(* reading.  The model stores the difference itself ("age": seconds since  *)
(* the stored reading), advanced by TickWall and TickLoop and saturated    *)
(* where the code's comparison can no longer change.                       *)
(***************************************************************************)
EXTENDS Integers, Sequences, FiniteSets, TLC

\* ----------------------------------------------------------------- bounds
MaxJobs == 2        \* generation requests accepted by the API
MaxPods == 2        \* pods the control plane may list
MaxChars == 2       \* characters created
MaxNameLen == 3     \* characters in a character's name

\* ------------------------------------------------------ program constants
HealthCheckInterval == 30   \* RunPodManager._health_check_interval, seconds
ImageTimeout == 300         \* execute_workflow(timeout=300.0) default
VideoTimeout == 600         \* execute_workflow(workflow, timeout=600.0)

NoRefresh == -1              \* RunPodManager._last_refresh is None

None == "None"
Jobs == 1..MaxJobs
Chars == 1..MaxChars

\* Amounts by which the wall clock and the loop clock may advance between
\* two steps of the event loop.
WallSteps == {20}
LoopSteps == {310}

Min(a, b) == IF a < b THEN a ELSE b

\* --------------------------------------------------------------- settings
\* Settings.runpod_api_key / runpod_endpoint_id: empty (the default) or set.
CredValues == {"", "set"}

\* URLs are (scheme, host, path).  NoUrl is Python's None for a URL.
Url(s, h, p) == [scheme |-> s, host |-> h, path |-> p]
NoUrl == Url("", "", "")

\* Settings.comfyui_http_url and Settings.comfyui_url (the static endpoint).
comfyui_http_url == Url("http", "static", "")
comfyui_url == Url("ws", "static", "/ws")

\* ------------------------------------------------------------------- pods
PodStatus == {"RUNNING", "STARTING", "STOPPED", "EXITED", "ERROR"}

\* desiredStatus values the control plane is taken to report in a listing.
ListedStatus == {"RUNNING", "STOPPED"}

PodNames == <<"pod1", "pod2", "pod3", "pod4">>
PodIds == {PodNames[i] : i \in 1..MaxPods}

\* list_pods: comfyui_url = f"http://{ip}:{public_port}" when a public port
\* maps private port 8188, else None.
PodUrl(i) == Url("http", i, "")

\* Pod(...) as list_pods builds it: is_healthy defaults to False.  probe is
\* history: how the last GET /system_stats for the pod went, "" when none.
Pod(i, st, u) == [id |-> i, status |-> st, comfyui_url |-> u, is_healthy |-> FALSE,
                  probe |-> ""]
NoPod == Pod("", "", NoUrl)

\* What one entry of a listing can be.
PodChoices == {Pod(i, st, u) : i \in PodIds, st \in ListedStatus, u \in {NoUrl}} \cup
              {Pod(i, st, PodUrl(i)) : i \in PodIds, st \in ListedStatus}

\* The control plane's answers: pods with distinct ids, in any order.
Listings(pool) ==
    {l \in UNION {[1..n -> PodChoices] : n \in 0..Cardinality(pool)} :
        /\ \A k \in 1..Len(l) : l[k].id \in pool
        /\ \A a, b \in 1..Len(l) : a # b => l[a].id # l[b].id}

\* is_configured looking at the key alone.
IsConfiguredKeyOnly(k, e) == k # ""

\* is_configured: bool(self.api_key and self.endpoint_id)
IsConfigured(k, e) == k # "" /\ e # ""

\* check_pod_health: GET {url}/system_stats; the outcome of the probe.
ProbeOutcomes == {"200", "500", "exception"}

\* Any response taken as health.
CheckPodHealthAnyResponse(pod, outcome) ==
    IF pod.comfyui_url = NoUrl
        THEN pod
        ELSE [pod EXCEPT !.is_healthy = (outcome # "exception"), !.probe = outcome]

CheckPodHealth(pod, outcome) ==
    IF pod.comfyui_url = NoUrl
        THEN pod
        ELSE [pod EXCEPT !.is_healthy = (outcome = "200"), !.probe = outcome]

\* {pod.id: pod for pod in pods}: insertion order, a repeated key keeps its
\* place and takes the later value.
DictPut(d, pod) ==
    IF \E k \in 1..Len(d) : d[k].id = pod.id
        THEN [k \in 1..Len(d) |-> IF d[k].id = pod.id THEN pod ELSE d[k]]
        ELSE Append(d, pod)

RECURSIVE DictFrom(_, _)
DictFrom(d, l) == IF l = <<>> THEN d ELSE DictFrom(DictPut(d, Head(l)), Tail(l))

\* refresh_pods without its staleness window.
SkipNever(force, age) == FALSE

\* The staleness window applied to a forced refresh as well.
SkipIgnoringForce(force, age) == age # NoRefresh /\ age < HealthCheckInterval

\* refresh_pods, "Skip if recently refreshed".  age is now - _last_refresh.
SkipRefresh(force, age) ==
    ~force /\ age # NoRefresh /\ age < HealthCheckInterval

\* The filter without its health condition.
EligibleIgnoringHealth(pod) == pod.status = "RUNNING" /\ pod.comfyui_url # NoUrl

\* get_available_pod, the filter and the pick.
Eligible(pod) == pod.status = "RUNNING" /\ pod.is_healthy /\ pod.comfyui_url # NoUrl

GetAvailablePod(d) ==
    LET healthy_pods == SelectSeq(d, Eligible)
    IN  IF healthy_pods = <<>> THEN NoPod ELSE healthy_pods[1]

\* get_comfyui_url answering with the static endpoint whatever the pod.
UrlAlwaysStatic(pod) == comfyui_http_url

\* get_comfyui_url, after get_available_pod returned pod.
UrlForPod(pod) ==
    IF pod # NoPod /\ pod.comfyui_url # NoUrl THEN pod.comfyui_url ELSE comfyui_http_url

\* The fallback reading settings.comfyui_url.
StaticFallbackDuplex == comfyui_url

\* get_comfyui_url, "if not self.is_configured": the static configuration.
StaticFallback == comfyui_http_url

\* get_comfyui_ws_url: replace("http://", "ws://").replace("https://", "wss://")
\* and the "/ws" suffix.
HttpToWs(u) ==
    [u EXCEPT !.scheme = IF @ = "http" THEN "ws" ELSE IF @ = "https" THEN "wss" ELSE @,
              !.path = "/ws"]      \* every base URL of the model has an empty path


\* ------------------------------------------------------------------ state
VARIABLES
    api_key,        \* RunPodManager.api_key
    endpoint_id,    \* RunPodManager.endpoint_id
    pool,           \* environment: the pods that exist in the account
    requests,       \* environment: how many generation requests clients send
    pods,           \* RunPodManager._pods, in insertion order
    last_refresh,   \* age of RunPodManager._last_refresh, NoRefresh for None
    http_url,       \* comfyui_client._http_url
    ws_url,         \* comfyui_client._ws_url
    job,            \* the background tasks: position and locals
    rec,            \* the generation records of the state store
    fetch,          \* history: age of the start of the last refresh_pods call
                    \* that sent a listing request, NoRefresh for none
    ok_age,         \* history: age of the start of the last refresh that completed
    last_get,       \* history: the last return of get_comfyui_url
    build,          \* one call of build_image_workflow or build_video_workflow
    call,           \* a caller of refresh_pods, health_check or is_configured
    word,           \* one call of generate_trigger_word
    training,       \* the character rows and their start_lora_training tasks
    emitted,        \* worker: the prompts whose ending frame was sent while the
                    \* submitting task had no connection open
    resp            \* the last answer of POST /generate-image or /generate-video

vars == <<api_key, endpoint_id, pool, requests, pods, last_refresh, http_url, ws_url,
          job, rec, fetch, ok_age, last_get, build, call, word, training, emitted,
          resp>>

Settings == <<api_key, endpoint_id, pool, requests>>
Registry == <<pods, last_refresh, http_url, ws_url, fetch, ok_age, last_get>>

is_configured == IsConfigured(api_key, endpoint_id)

\* GenerationStatus
PENDING == "pending"
PROCESSING == "processing"
COMPLETED == "completed"
FAILED == "failed"

\* No row with this id.
NoRecord == [status |-> "absent", url |-> None, error |-> None]

\* The row the route inserts: status pending, output URL and error NULL.
NewRecord == [status |-> PENDING, url |-> None, error |-> None]

\* update_generation_status writing the status alone.
UpdateGenerationStatusNoUrl(r, status, url, error) ==
    IF r = NoRecord
        THEN r
        ELSE [status |-> status, url |-> r.url,
              error  |-> IF error # None /\ error # "" THEN error ELSE r.error]

\* update_generation_status: "if generation:", the status always, the URL
\* and the error only when truthy.
UpdateGenerationStatus(r, status, url, error) ==
    IF r = NoRecord
        THEN r
        ELSE [status |-> status,
              url    |-> IF url # None /\ url # "" THEN url ELSE r.url,
              error  |-> IF error # None /\ error # "" THEN error ELSE r.error]

\* comfyui_client = ComfyUIClient(): the one instance every task uses, and
\* its client_id = str(uuid.uuid4()) drawn once in __init__.
ClientIdOf(j) == "uuid-of-comfyui_client"

\* The prompt_id the worker issues for the n-th submission of task j.
NoPrompt == <<>>
PromptId(j, n) == <<j, n>>
PromptIds == {PromptId(j, n) : j \in Jobs, n \in 1..2}



NoEvent == [type |-> "", prompt_id |-> <<>>, node |-> None, exception_message |-> None]


\* History of get_comfyui_url's last return: asked, get_available_pod was
\* called; fetched, its refresh sent a listing request; picked, the pod it
\* returned from the registry snap; url, the value returned.
NoGet == [asked |-> FALSE, fetched |-> FALSE, picked |-> NoPod, url |-> NoUrl,
          snap |-> <<>>]

IdleJob == [pc |-> "idle", kind |-> "image", has_source |-> FALSE, phase |-> "image",
            which |-> "-", next |-> "-", call_age |-> 0, gap |-> NoRefresh,
            since_ok |-> NoRefresh, resolved |-> {},
            ws |-> NoUrl, post_url |-> NoUrl, conn_url |-> NoUrl,
            client_id |-> None, prompt_id |-> NoPrompt, nsub |-> 0,
            elapsed |-> 0, cands |-> 0, last_ev |-> NoEvent, skipped |-> FALSE,
            missed |-> "", hist_key |-> NoPrompt, found |-> FALSE,
            artifact |-> "",
            exc |-> None, raised |-> None]

\* The shared objects a task's synchronous code reads and writes.
Shared == [pods |-> pods, last_refresh |-> last_refresh, ws_url |-> ws_url,
           http_url |-> http_url, fetch |-> fetch, ok_age |-> ok_age,
           last_get |-> last_get]

\* One task's code between two suspension points maps (shared, locals) to
\* (shared, locals); Commit makes the result the next state.
Commit(j, st) ==
    /\ pods' = st.g.pods
    /\ last_refresh' = st.g.last_refresh
    /\ ws_url' = st.g.ws_url
    /\ http_url' = st.g.http_url
    /\ fetch' = st.g.fetch
    /\ ok_age' = st.g.ok_age
    /\ last_get' = st.g.last_get
    /\ job' = [job EXCEPT ![j] = st.jr]

\* refresh_pods "Update cache": self._pods and self._last_refresh = now,
\* where now was read when the call began, age seconds ago.
Install(g, fresh, age) ==
    [g EXCEPT !.pods = DictFrom(<<>>, fresh),
              !.last_refresh = Min(age, HealthCheckInterval)]

\* get_available_pod's filter and get_comfyui_url's return, on the registry
\* as it is now.
ReturnUrl(g, fetched) ==
    LET pod == GetAvailablePod(g.pods)
    IN  [g EXCEPT !.last_get = [asked |-> TRUE, fetched |-> fetched, picked |-> pod,
                                url |-> UrlForPod(pod), snap |-> g.pods]]

\* list_pods: "if not self.is_configured: return []" sends no request.
ListPodsSendsRequest == is_configured

\* get_comfyui_url up to its first suspension.  fetch: the control-plane
\* request is in flight; otherwise g.last_get.url is the value returned.
GetComfyuiUrl(g) ==
    IF ~is_configured
        THEN [fetch |-> FALSE,
              g |-> [g EXCEPT !.last_get = [asked |-> FALSE, fetched |-> FALSE,
                                            picked |-> NoPod, url |-> StaticFallback,
                                            snap |-> g.pods]]]
    ELSE IF SkipRefresh(FALSE, g.last_refresh)
        THEN [fetch |-> FALSE, g |-> ReturnUrl(g, FALSE)]
    ELSE IF ListPodsSendsRequest
        THEN [fetch |-> TRUE, g |-> [g EXCEPT !.fetch = 0]]
    ELSE [fetch |-> FALSE,
          g |-> ReturnUrl([Install(g, <<>>, 0) EXCEPT !.ok_age = 0], FALSE)]

\* POST {http_url}/prompt with client_id: the request is sent.
SendPrompt(g, jr, j) ==
    [g |-> g,
     jr |-> [jr EXCEPT !.pc = "post", !.post_url = g.http_url,
                       !.client_id = ClientIdOf(j), !.which = "-", !.next = "-",
                       !.call_age = 0, !.gap = NoRefresh, !.since_ok = NoRefresh]]

\* POST {http_url}/upload/image: the request is sent.
SendUploadImage(g, jr) ==
    [g |-> g, jr |-> [jr EXCEPT !.pc = "upload_image", !.which = "-", !.next = "-",
                                !.call_age = 0, !.gap = NoRefresh,
                                !.since_ok = NoRefresh]]

AfterHttpUrl(g, jr, j) ==
    IF jr.next = "upload_image" THEN SendUploadImage(g, jr) ELSE SendPrompt(g, jr, j)

\* _get_http_url, then the request of the caller (jr.next).
GetHttpUrl(g, jr, j) ==
    IF g.http_url # NoUrl
        THEN AfterHttpUrl(g, jr, j)
        ELSE LET r == GetComfyuiUrl(g)
             IN  IF r.fetch
                    THEN [g |-> r.g,
                          jr |-> [jr EXCEPT !.pc = "listing", !.which = "http",
                                            !.call_age = 0, !.gap = g.fetch,
                                            !.since_ok = g.ok_age,
                                            !.resolved = @ \cup {"http"}]]
                    ELSE AfterHttpUrl([r.g EXCEPT !.http_url = r.g.last_get.url],
                                      [jr EXCEPT !.resolved = @ \cup {"http"}], j)

\* execute_workflow: ws_url = await self._get_ws_url(), then queue_prompt.
ExecuteWorkflow(g, jr, j) ==
    IF g.ws_url # NoUrl
        THEN GetHttpUrl(g, [jr EXCEPT !.ws = g.ws_url, !.next = "post"], j)
        ELSE LET r == GetComfyuiUrl(g)
             IN  IF r.fetch
                    THEN [g |-> r.g,
                          jr |-> [jr EXCEPT !.pc = "listing", !.which = "ws",
                                            !.next = "post", !.call_age = 0,
                                            !.gap = g.fetch, !.since_ok = g.ok_age,
                                            !.resolved = @ \cup {"ws"}]]
                    ELSE LET g1 == [r.g EXCEPT !.ws_url = HttpToWs(r.g.last_get.url)]
                         IN  GetHttpUrl(g1, [jr EXCEPT !.ws = g1.ws_url, !.next = "post",
                                                       !.resolved = @ \cup {"ws"}], j)


\* ------------------------------------------------------- errors and events
\* str(e) of what a failed network call raises: an HTTP status error, or a
\* transport timeout, whose message is empty.
NetErrors == {"HTTPStatusError", ""}

KeyErrorPromptId == "'prompt_id'"

\* The timeout error without the value.
TimeoutMsgNoValue(t) == "Workflow execution timed out"

\* f"Workflow execution timed out after {timeout}s"
TimeoutMsg(t) ==
    IF t = ImageTimeout THEN "Workflow execution timed out after 300.0s"
                        ELSE "Workflow execution timed out after 600.0s"

\* The error without the worker's message.
ExecFailedMsgGeneric(m) == "Workflow execution failed: Unknown error"

\* f"Workflow execution failed: {error_data.get('exception_message', 'Unknown error')}"
ExecFailedMsg(m) ==
    IF m = None THEN "Workflow execution failed: Unknown error"
                ELSE "Workflow execution failed: OOM"

NoImageMsg == "No output image found in workflow results"
NoVideoMsg == "No output video found in workflow results"
NoSourceMsg == "Failed to generate source image for video"

\* The frames the duplex channel can deliver.
Event(t, p, n, m) == [type |-> t, prompt_id |-> p, node |-> n, exception_message |-> m]

Events ==
    {Event("executing", p, n, None) : p \in PromptIds \cup {NoPrompt}, n \in {None, "3"}} \cup
    {Event("execution_error", p, None, m) : p \in PromptIds \cup {NoPrompt}, m \in {None, "OOM"}} \cup
    {Event("progress", p, None, None) : p \in PromptIds}

\* history[prompt_id]["outputs"], node by node: the key of the node's
\* artifact list and the filenames in it (None: an entry without one).
Outputs == {<<>>,
            <<[key |-> "images", files |-> <<"a.png">>]>>,
            <<[key |-> "images", files |-> <<None>>]>>,
            <<[key |-> "text", files |-> <<"t.txt">>], [key |-> "images", files |-> <<None, "b.png">>]>>,
            <<[key |-> "gifs", files |-> <<"v.gif">>]>>,
            <<[key |-> "gifs", files |-> <<>>]>>}

\* The bodies GET /history/{prompt_id} can answer with: a mapping from
\* prompt ids to entries, here with at most one key.
Histories ==
    UNION {[S -> Outputs] : S \in {{}} \cup {{q} : q \in PromptIds}}

\* The lookup returning whatever entry the body holds.
HistoryOutputsAnyKey(history, prompt_id) ==
    IF DOMAIN history = {} THEN <<>>
    ELSE history[CHOOSE k \in DOMAIN history : TRUE]

\* history.get(prompt_id, {}).get("outputs", {})
HistoryOutputs(history, prompt_id) ==
    IF prompt_id \in DOMAIN history THEN history[prompt_id] ELSE <<>>

\* The inner loop without "if filename".
FirstFileUnchecked(files) == IF files = <<>> THEN None ELSE "unnamed"

\* The inner loop over one node's list: the first truthy filename.
FirstFile(files) ==
    LET named == SelectSeq(files, LAMBDA f : f # None /\ f # "")
    IN  IF named = <<>> THEN None ELSE named[1]

\* Every node taken as carrying a file.
CandidatesAnyNode(outputs, key) == [k \in 1..Len(outputs) |-> "unnamed"]

\* The nodes, in order, that carry key and a filename, each with the file
\* the inner loop stops at.
Candidates(outputs, key) ==
    LET nodes == SelectSeq(outputs, LAMBDA n : n.key = key /\ FirstFile(n.files) # None)
    IN  [k \in 1..Len(nodes) |-> FirstFile(nodes[k].files)]

\* History (job.artifact, "" before any outputs were returned): some node of
\* outputs carries key with a filename in its list.
HasArtifact(outputs, key) ==
    \E n \in 1..Len(outputs) :
        /\ outputs[n].key = key
        /\ \E f \in 1..Len(outputs[n].files) : outputs[n].files[f] \notin {None, ""}

\* execute_workflow's timeout: the default for an image workflow, 600.0 for
\* the video workflow.
TimeoutOf(jr) == IF jr.phase = "video" THEN VideoTimeout ELSE ImageTimeout

\* An exception leaves the try block: the handler's write is awaited.
Raise(jr, e) ==
    [jr EXCEPT !.pc = "except", !.exc = e, !.which = "-", !.next = "-",
               !.call_age = 0, !.gap = NoRefresh, !.since_ok = NoRefresh,
               !.elapsed = 0, !.cands = 0, !.skipped = FALSE,
               !.conn_url = NoUrl, !.hist_key = NoPrompt]

\* The task has ended: its locals are gone.
Ended(jr, pc) ==
    [IdleJob EXCEPT !.pc = pc, !.exc = jr.exc,
                    !.raised = IF pc = "raised" THEN jr.exc ELSE None]

OnlyJob(j, jr) ==
    /\ job' = [job EXCEPT ![j] = jr]
    /\ UNCHANGED <<pods, last_refresh, ws_url, http_url, fetch, ok_age, last_get>>

\* What the tasks' steps leave alone: the environment and the calls made
\* outside a task.
Env == <<api_key, endpoint_id, pool, requests, build, call, word, training, emitted,
         resp>>

\* The pods the registry holds as not Running, unhealthy or without endpoint.
Ineligible(d) == {d[k].id : k \in {k \in 1..Len(d) : ~Eligible(d[k])}}

\* ---------------------------------------------------------------- actions
\* generate_image / generate_video (routes): insert the pending row and
\* schedule the background task.
CreateGeneration(j, kind, src) ==
    /\ job[j].pc = "idle"
    /\ j <= requests
    /\ \A i \in Jobs : i < j => job[i].pc # "idle"
    /\ rec' = [rec EXCEPT ![j] = NewRecord]
    /\ OnlyJob(j, [job[j] EXCEPT !.pc = "start", !.kind = kind, !.has_source = src,
                                 !.phase = IF kind = "video" /\ src THEN "video" ELSE "image"])
    /\ UNCHANGED Env

\* The task without its first statement.
MarkProcessingNoWrite(j) ==
    /\ job[j].pc = "start"
    /\ IF job[j].kind = "video" /\ job[j].has_source
          THEN OnlyJob(j, [job[j] EXCEPT !.pc = "source_get"])
          ELSE Commit(j, ExecuteWorkflow(Shared, job[j], j))
    /\ UNCHANGED <<rec, Env>>

\* The task's first statement, update_generation_status(PROCESSING), and
\* the code up to the next suspension.
MarkProcessing(j) ==
    /\ job[j].pc = "start"
    /\ rec' = [rec EXCEPT ![j] = UpdateGenerationStatus(@, PROCESSING, None, None)]
    /\ LET jr == job[j]
       IN  IF jr.kind = "video" /\ jr.has_source
              THEN OnlyJob(j, [jr EXCEPT !.pc = "source_get"])
              ELSE Commit(j, ExecuteWorkflow(Shared, jr, j))
    /\ UNCHANGED Env

\* refresh_pods: the listing answered, the probes done, the cache replaced;
\* then get_available_pod, get_comfyui_url and the caller's assignment.
ListingDone(j, l, h) ==
    /\ job[j].pc = "listing"
    /\ LET fresh == [k \in 1..Len(l) |-> CheckPodHealth(l[k], h[k])]
           g1 == ReturnUrl([Install(Shared, fresh, job[j].call_age)
                                EXCEPT !.ok_age = job[j].call_age], TRUE)
           url == g1.last_get.url
       IN  IF job[j].which = "ws"
              THEN LET g2 == [g1 EXCEPT !.ws_url = HttpToWs(url)]
                   IN  Commit(j, GetHttpUrl(g2, [job[j] EXCEPT !.ws = g2.ws_url], j))
              ELSE Commit(j, AfterHttpUrl([g1 EXCEPT !.http_url = url], job[j], j))
    /\ UNCHANGED <<rec, Env>>

\* The cache emptied and stamped before the listing is known to have failed.
ListingFailsClearsCache(j, e) ==
    /\ job[j].pc = "listing"
    /\ Commit(j, [g |-> Install(Shared, <<>>, job[j].call_age), jr |-> Raise(job[j], e)])
    /\ UNCHANGED <<rec, Env>>

\* _graphql_request raises: refresh_pods, get_comfyui_url and the task's
\* try block are left.
ListingFails(j, e) ==
    /\ job[j].pc = "listing"
    /\ OnlyJob(j, Raise(job[j], e))
    /\ UNCHANGED <<rec, Env>>


\* queue_prompt: the response of POST /prompt carries prompt_id; then
\* websockets.connect(f"{ws_url}?clientId={self.client_id}") is begun.
PostOk(j) ==
    /\ job[j].pc = "post"
    /\ OnlyJob(j, [job[j] EXCEPT !.pc = "connect", !.nsub = @ + 1,
                                 !.prompt_id = PromptId(j, job[j].nsub + 1),
                                 !.conn_url = job[j].ws])
    /\ UNCHANGED <<rec, Env>>

\* data.get("prompt_id") on a response without the key: the call goes on.
PostNoPromptIdProceeds(j) ==
    /\ job[j].pc = "post"
    /\ OnlyJob(j, [job[j] EXCEPT !.pc = "connect", !.nsub = @ + 1,
                                 !.prompt_id = NoPrompt, !.conn_url = job[j].ws])
    /\ UNCHANGED <<rec, Env>>

\* queue_prompt: data["prompt_id"] on a response without the key.
PostNoPromptId(j) ==
    /\ job[j].pc = "post"
    /\ OnlyJob(j, Raise([job[j] EXCEPT !.nsub = @ + 1], KeyErrorPromptId))
    /\ UNCHANGED <<rec, Env>>

\* A failed submission sent again.
PostFailsRetry(j, e) ==
    /\ job[j].pc = "post"
    /\ OnlyJob(j, [job[j] EXCEPT !.nsub = @ + 1])
    /\ UNCHANGED <<rec, Env>>

\* queue_prompt: the request fails or raise_for_status raises.
PostFails(j, e) ==
    /\ job[j].pc = "post"
    /\ OnlyJob(j, Raise([job[j] EXCEPT !.nsub = @ + 1], e))
    /\ UNCHANGED <<rec, Env>>

\* The duplex connection is open: start_time = loop.time().
ConnectOk(j) ==
    /\ job[j].pc = "connect"
    /\ OnlyJob(j, [job[j] EXCEPT !.pc = "loop", !.elapsed = 0])
    /\ UNCHANGED <<rec, Env>>

ConnectFails(j, e) ==
    /\ job[j].pc = "connect"
    /\ OnlyJob(j, Raise(job[j], e))
    /\ UNCHANGED <<rec, Env>>

\* The loop without its elapsed-time check.
LoopTopNoTimeout(j) ==
    /\ job[j].pc = "loop"
    /\ OnlyJob(j, [job[j] EXCEPT !.pc = "recv"])
    /\ UNCHANGED <<rec, Env>>

\* "while True": the elapsed-time check, then ws.recv() is awaited.
LoopTop(j) ==
    /\ job[j].pc = "loop"
    /\ IF job[j].elapsed > TimeoutOf(job[j])
          THEN OnlyJob(j, Raise(job[j], TimeoutMsg(TimeoutOf(job[j]))))
          ELSE OnlyJob(j, [job[j] EXCEPT !.pc = "recv"])
    /\ UNCHANGED <<rec, Env>>

\* A frame that ends the wait of the call it belongs to.
EndsWait(ev) ==
    \/ ev.type = "executing" /\ ev.node = None
    \/ ev.type = "execution_error"

\* The loop body without the comparisons of prompt_id.
OnMessageAnyPrompt(ev, prompt_id) ==
    IF ev.type = "executing"
        THEN IF ev.node = None THEN "break" ELSE "continue"
    ELSE IF ev.type = "execution_error"
        THEN "raise"
    ELSE "continue"

\* What the loop body does with one received frame: "break" (the history
\* request follows), "raise", or "continue".
OnMessage(ev, prompt_id) ==
    IF ev.type = "executing"
        THEN IF ev.prompt_id = prompt_id /\ ev.node = None THEN "break" ELSE "continue"
    ELSE IF ev.type = "execution_error"
        THEN IF ev.prompt_id = prompt_id THEN "raise" ELSE "continue"
    ELSE "continue"

\* The worker finishes or fails the prompt of task j after it accepted the
\* submission and before the task's connection is open: the ending frame
\* goes to the connections open at that moment, of which the task has none.
WorkerEndsUnobserved(j) ==
    /\ job[j].pc = "connect"
    /\ job[j].prompt_id \notin emitted
    /\ emitted' = emitted \cup {job[j].prompt_id}
    /\ UNCHANGED <<Settings, Registry, job, rec, build, call, word, training, resp>>

\* ws.recv() returned a frame.  The worker ends a prompt once: no ending
\* frame of the task's prompt arrives after the one sent before the
\* connection was open.
RecvEvent(j, ev) ==
    /\ job[j].pc = "recv"
    /\ ~(EndsWait(ev) /\ ev.prompt_id = job[j].prompt_id /\ ev.prompt_id \in emitted)
    /\ LET r == OnMessage(ev, job[j].prompt_id)
       IN  OnlyJob(j, IF r = "break"
                         THEN [job[j] EXCEPT !.pc = "history", !.elapsed = 0,
                                             !.last_ev = ev, !.skipped = FALSE,
                                             !.conn_url = NoUrl, !.found = FALSE,
                                             !.artifact = "",
                                             !.hist_key = job[j].prompt_id]
                      ELSE IF r = "raise"
                         THEN Raise([job[j] EXCEPT !.last_ev = ev],
                                    ExecFailedMsg(ev.exception_message))
                      ELSE [job[j] EXCEPT !.pc = "loop",
                                          !.skipped = @ \/ (EndsWait(ev) /\
                                                ev.prompt_id # job[j].prompt_id),
                                          !.missed = IF EndsWait(ev) /\
                                                        ev.prompt_id = job[j].prompt_id
                                                        THEN ev.type ELSE @])
    /\ UNCHANGED <<rec, Env>>

\* The receive timeout left uncaught: it ends the wait as the total timeout
\* does.
RecvTimeoutRaises(j) ==
    /\ job[j].pc = "recv"
    /\ OnlyJob(j, Raise(job[j], TimeoutMsg(TimeoutOf(job[j]))))
    /\ UNCHANGED <<rec, Env>>

\* asyncio.wait_for(ws.recv(), timeout=5.0) timed out: "continue".
RecvTimeout(j) ==
    /\ job[j].pc = "recv"
    /\ OnlyJob(j, [job[j] EXCEPT !.pc = "loop"])
    /\ UNCHANGED <<rec, Env>>

\* ws.recv() raises (the connection was closed).
RecvFails(j) ==
    /\ job[j].pc = "recv"
    /\ OnlyJob(j, Raise(job[j], "ConnectionClosed"))
    /\ UNCHANGED <<rec, Env>>

\* get_history answered: execute_workflow returns the outputs found under
\* prompt_id and the task looks for its artifact.  For the source image of
\* a video the filename is all that is needed and the video workflow is
\* executed next; otherwise the first candidate is downloaded.
HistoryOk(j, history) ==
    /\ job[j].pc = "history"
    /\ LET outputs == HistoryOutputs(history, job[j].prompt_id)
           jr == [job[j] EXCEPT !.last_ev = NoEvent, !.hist_key = NoPrompt,
                                !.found = job[j].prompt_id \in DOMAIN history,
                                !.artifact =
                                    IF HasArtifact(outputs,
                                          IF job[j].phase = "video" THEN "gifs" ELSE "images")
                                       THEN "yes" ELSE "no"]
           key == IF jr.phase = "video" THEN "gifs" ELSE "images"
           c == Candidates(outputs, key)
       IN  IF jr.kind = "video" /\ jr.phase = "image"
              THEN IF c = <<>>
                      THEN OnlyJob(j, Raise(jr, NoSourceMsg))
                      ELSE Commit(j, ExecuteWorkflow(Shared, [jr EXCEPT !.phase = "video"], j))
              ELSE IF c = <<>>
                      THEN OnlyJob(j, Raise(jr, IF key = "gifs" THEN NoVideoMsg ELSE NoImageMsg))
                      ELSE OnlyJob(j, [jr EXCEPT !.pc = "view", !.cands = Len(c) - 1])
    /\ UNCHANGED <<rec, Env>>

HistoryFails(j, e) ==
    /\ job[j].pc = "history"
    /\ OnlyJob(j, Raise(job[j], e))
    /\ UNCHANGED <<rec, Env>>

\* The URL storage_manager.upload returns for the object stored under
\* characters/<character.id>/images/<generation_id>.png (videos/...mp4).
StorageUrl(j) == "https://storage/characters/c/" \o ToString(j)

\* The download's answer taken as the end of the task: the COMPLETED write
\* is made before the storage upload is begun.
ViewOkWritesCompleted(j, empty) ==
    /\ job[j].pc = "view"
    /\ rec' = [rec EXCEPT ![j] = [status |-> COMPLETED, url |-> StorageUrl(j),
                                  error |-> rec[j].error]]
    /\ OnlyJob(j, [job[j] EXCEPT !.pc = "upload", !.cands = 0])
    /\ UNCHANGED Env

\* get_image answered.  Empty content is falsy: the search goes on with the
\* next node, and fails when there is none.  Otherwise storage upload is
\* begun.
ViewOk(j, empty) ==
    /\ job[j].pc = "view"
    /\ LET jr == job[j]
       IN  IF ~empty
              THEN OnlyJob(j, [jr EXCEPT !.pc = "upload", !.cands = 0])
           ELSE IF jr.cands > 0
              THEN OnlyJob(j, [jr EXCEPT !.cands = @ - 1])
           ELSE OnlyJob(j, Raise(jr, IF jr.phase = "video" THEN NoVideoMsg ELSE NoImageMsg))
    /\ UNCHANGED <<rec, Env>>

ViewFails(j, e) ==
    /\ job[j].pc = "view"
    /\ OnlyJob(j, Raise([job[j] EXCEPT !.cands = 0], e))
    /\ UNCHANGED <<rec, Env>>

\* The COMPLETED write followed by a statement of the try block that raises.
UploadOkThenRaise(j) ==
    /\ job[j].pc = "upload"
    /\ rec' = [rec EXCEPT ![j] = UpdateGenerationStatus(@, COMPLETED, StorageUrl(j), None)]
    /\ OnlyJob(j, Raise(job[j], "after the write"))
    /\ UNCHANGED Env

\* storage_manager.upload returned the URL, and
\* update_generation_status(COMPLETED, url) was committed; the task returns.
UploadOk(j) ==
    /\ job[j].pc = "upload"
    /\ rec' = [rec EXCEPT ![j] = UpdateGenerationStatus(@, COMPLETED, StorageUrl(j), None)]
    /\ OnlyJob(j, Ended(job[j], "done"))
    /\ UNCHANGED Env

UploadFails(j, e) ==
    /\ job[j].pc = "upload"
    /\ OnlyJob(j, Raise(job[j], e))
    /\ UNCHANGED <<rec, Env>>

\* "except Exception as e": update_generation_status(FAILED, error=str(e))
\* was committed; "raise".
MarkFailed(j) ==
    /\ job[j].pc = "except"
    /\ rec' = [rec EXCEPT ![j] = UpdateGenerationStatus(@, FAILED, None, job[j].exc)]
    /\ OnlyJob(j, Ended(job[j], "raised"))
    /\ UNCHANGED Env

\* generate_video_task with a source image: the download of
\* request.source_image_url answered; upload_image resolves the HTTP URL.
SourceOk(j) ==
    /\ job[j].pc = "source_get"
    /\ Commit(j, GetHttpUrl(Shared, [job[j] EXCEPT !.next = "upload_image"], j))
    /\ UNCHANGED <<rec, Env>>

SourceFails(j, e) ==
    /\ job[j].pc = "source_get"
    /\ OnlyJob(j, Raise(job[j], e))
    /\ UNCHANGED <<rec, Env>>

\* POST /upload/image answered; the video workflow is built and executed.
UploadImageOk(j) ==
    /\ job[j].pc = "upload_image"
    /\ Commit(j, ExecuteWorkflow(Shared, job[j], j))
    /\ UNCHANGED <<rec, Env>>

UploadImageFails(j, e) ==
    /\ job[j].pc = "upload_image"
    /\ OnlyJob(j, Raise(job[j], e))
    /\ UNCHANGED <<rec, Env>>

\* The wall clock advances: every stored utcnow() reading gets d seconds
\* older.
Age(a, d, cap) == IF a = NoRefresh THEN NoRefresh ELSE Min(a + d, cap)

TickWall(d) ==
    /\ ws_url = NoUrl \/ http_url = NoUrl      \* utcnow() can still be read
    /\ last_refresh' = Age(last_refresh, d, HealthCheckInterval)
    /\ ok_age' = Age(ok_age, d, HealthCheckInterval)
    /\ fetch' = Age(fetch, d, HealthCheckInterval)
    /\ job' = [j \in Jobs |->
                 IF job[j].pc = "listing"
                    THEN [job[j] EXCEPT !.call_age = Age(@, d, HealthCheckInterval)]
                    ELSE job[j]]
    /\ call' = IF call.pc \in {"listing", "probing"}
                  THEN [call EXCEPT !.call_age = Age(@, d, HealthCheckInterval)]
                  ELSE call
    /\ UNCHANGED <<pods, ws_url, http_url, last_get, rec, Settings, build, word, training,
                   emitted, resp>>

\* The loop clock advances: every wait has lasted d seconds longer.
TickLoop(d) ==
    /\ \E j \in Jobs : job[j].pc \in {"loop", "recv"}
    /\ job' = [j \in Jobs |->
                 IF job[j].pc \in {"loop", "recv"}
                    THEN [job[j] EXCEPT !.elapsed = Age(@, d, TimeoutOf(job[j]) + 1)]
                    ELSE job[j]]
    /\ UNCHANGED <<pods, last_refresh, ws_url, http_url, fetch, ok_age, last_get, rec, Env>>

\* --------------------------------------------- calls made outside a task
\* The caller: fn, the method called; call_age, seconds since the call read
\* utcnow(); since, the age of _last_refresh when the call began; sent, the
\* call sent a listing request; probe, how its GET /system_stats went; exc,
\* the exception it caught or raised; ret, what it returned; listed, the Pod
\* objects list_pods built for this call; probed, the positions in listed
\* whose check_pod_health has returned; data, the pods of the control plane's
\* answer that listed was built from.
NoCall == [fn |-> "", pc |-> "idle", force |-> FALSE, call_age |-> 0, since |-> NoRefresh,
           sent |-> FALSE, probe |-> "", exc |-> None, ret |-> "None",
           listed |-> <<>>, probed |-> {}, data |-> <<>>]

\* One call of generate_trigger_word.
NoWord == [name |-> <<>>, done |-> FALSE, result |-> <<>>]

\* A character row and the task that trains it; no character yet.
NoCharacter == [pc |-> "idle", status |-> "absent", lora_path |-> None,
                training_error |-> None, raised |-> None]
NoTraining == [c \in Chars |-> NoCharacter]

\* No request answered yet.  An answer: the character and the route of the
\* request, the status code, the detail of an error, and the id of the
\* generation it created (0 for none).
NoResponse == [character |-> 0, route |-> "", code |-> 0, detail |-> "", id |-> 0]

\* ------------------------------------------------------ workflow builders
\* A workflow is a mapping from node ids to [class_type, inputs]; inputs maps
\* keys to values.  A value is an integer or a string.  Python's unbounded
\* integers are kept as hi * 2^16 + lo with lo in 0..65535, so that 2^32 - 1
\* is (65535, 65535).
Num(hi, lo) == [t |-> "int", hi |-> hi, lo |-> lo, s |-> ""]
Str(x) == [t |-> "str", hi |-> 0, lo |-> 0, s |-> x]

\* request.seed is None
NoSeed == [t |-> "none", hi |-> 0, lo |-> 0, s |-> ""]

\* 0 <= v <= 2^32 - 1
InSeedRange(v) == v.t = "int" /\ v.hi \in 0..65535 /\ v.lo \in 0..65535

\* random.randint(0, 2**32 - 1): both ends and two values between.
RandInts == {Num(0, 0), Num(0, 1), Num(32768, 0), Num(65535, 65535)}

\* seed: int | None of the requests: no bound is declared on it.
SeedChoices == {NoSeed, Num(0, 0), Num(0, 42), Num(65535, 65535), Num(65536, 0),
                Num(-1, 65535)}

\* "request.seed or random.randint(...)": a seed of 0 taken as none.
SeedOr(request, drawn) ==
    IF request.seed \notin {NoSeed, Num(0, 0)} THEN request.seed ELSE drawn

\* seed = request.seed if request.seed is not None else random.randint(0, 2**32 - 1)
Seed(request, drawn) == IF request.seed # NoSeed THEN request.seed ELSE drawn

\* An assignment that replaces the node's inputs by the one key.
SetInputAlone(wf, node, key, val) == [wf EXCEPT ![node].inputs = (key :> val)]

\* workflow[node]["inputs"][key] = val
SetInput(wf, node, key, val) == [wf EXCEPT ![node].inputs = (key :> val) @@ @]

Node(c, i) == [class_type |-> c, inputs |-> i]

\* Templates load_image_workflow may read: the full one, one without the
\* latent node "5", one without sampler and adapter loader, one whose
\* sampler node has no seed yet, one without any known node.
ImageNodes ==
    [n \in {"3", "4", "5", "6", "7", "10"} |->
        CASE n = "3"  -> Node("KSampler", [seed |-> Num(0, 7), steps |-> Num(0, 20),
                                           cfg |-> Str("8.0"), sampler_name |-> Str("euler")])
          [] n = "4"  -> Node("CheckpointLoaderSimple", [ckpt_name |-> Str("sdxl.safetensors")])
          [] n = "5"  -> Node("EmptyLatentImage", [width |-> Num(0, 512), height |-> Num(0, 512),
                                                   batch_size |-> Num(0, 1)])
          [] n = "6"  -> Node("CLIPTextEncode", [text |-> Str("PROMPT"), clip |-> Str("10:1")])
          [] n = "7"  -> Node("CLIPTextEncode", [text |-> Str("NEGATIVE"), clip |-> Str("10:1")])
          [] n = "10" -> Node("LoraLoader", [lora_name |-> Str("PLACEHOLDER"),
                                             strength_model |-> Str("1.0"),
                                             strength_clip |-> Str("1.0"),
                                             model |-> Str("4:0")])]

Restrict(f, S) == [x \in S |-> f[x]]

ImageTemplates ==
    {ImageNodes,
     Restrict(ImageNodes, {"3", "4", "6", "7", "10"}),
     Restrict(ImageNodes, {"4", "5", "6", "7"}),
     [ImageNodes EXCEPT !["3"].inputs = [steps |-> Num(0, 20), sampler_name |-> Str("euler")]],
     Restrict(ImageNodes, {"4"})}

VideoNodes ==
    [n \in {"1", "2", "3", "8"} |->
        CASE n = "1" -> Node("LoadImage", [image |-> Str("PLACEHOLDER"), upload |-> Str("image")])
          [] n = "2" -> Node("SVD_img2vid_Conditioning",
                             [width |-> Num(0, 1024), height |-> Num(0, 576),
                              video_frames |-> Num(0, 14), motion_bucket_id |-> Num(0, 1),
                              fps |-> Num(0, 4), augmentation_level |-> Str("0.0")])
          [] n = "3" -> Node("KSampler", [seed |-> Num(0, 7), steps |-> Num(0, 20)])
          [] n = "8" -> Node("VHS_VideoCombine", [frame_rate |-> Num(0, 6)])]

VideoTemplates ==
    {VideoNodes, Restrict(VideoNodes, {"1", "2", "8"}), Restrict(VideoNodes, {"3", "8"})}

\* ImageGenerationRequest: the fields the builder reads.
ImageRequests ==
    [prompt : {"portrait"}, negative_prompt : {"blurry"}, width : {Num(0, 1024), Num(0, 2048)},
     height : {Num(0, 768)}, num_inference_steps : {Num(0, 30)}, guidance_scale : {Str("7.5")},
     lora_strength : {Str("0.8")}, seed : SeedChoices]

\* VideoGenerationRequest: the fields the builder reads.
VideoRequests ==
    [width : {Num(0, 1024)}, height : {Num(0, 576)}, num_frames : {Num(0, 25), Num(0, 50)},
     motion_bucket_id : {Num(0, 127)}, fps : {Num(0, 6)}, seed : SeedChoices]

\* The character of the request: trigger_word and lora_path, the path as
\* its components.
TheCharacter == [trigger_word |-> "sks_ann",
                 lora_path |-> <<"models", "loras", "ann.safetensors">>]

\* Path(character.lora_path).name
PathName(path) == path[Len(path)]

\* f"{character.trigger_word}, {request.prompt}"
FullPrompt(character, request) == character.trigger_word \o ", " \o request.prompt

BuildImageWorkflow(template, character, request, drawn) ==
    LET seed == Seed(request, drawn)
        w3 == IF "3" \in DOMAIN template
                 THEN SetInput(SetInput(SetInput(template, "3", "seed", seed),
                                        "3", "steps", request.num_inference_steps),
                               "3", "cfg", request.guidance_scale)
                 ELSE template
        w5 == IF "5" \in DOMAIN w3
                 THEN SetInput(SetInput(w3, "5", "width", request.width),
                               "5", "height", request.height)
                 ELSE w3
        w6 == IF "6" \in DOMAIN w5
                 THEN SetInput(w5, "6", "text", Str(FullPrompt(character, request)))
                 ELSE w5
        w7 == IF "7" \in DOMAIN w6
                 THEN SetInput(w6, "7", "text", Str(request.negative_prompt))
                 ELSE w6
    IN  IF "10" \in DOMAIN w7
           THEN SetInput(SetInput(SetInput(w7, "10", "lora_name",
                                           Str(PathName(character.lora_path))),
                                  "10", "strength_model", request.lora_strength),
                         "10", "strength_clip", request.lora_strength)
           ELSE w7

BuildVideoWorkflow(template, source_image_path, request, drawn) ==
    LET seed == Seed(request, drawn)
        w1 == IF "1" \in DOMAIN template
                 THEN SetInput(template, "1", "image", Str(source_image_path))
                 ELSE template
        w2 == IF "2" \in DOMAIN w1
                 THEN SetInput(SetInput(SetInput(SetInput(SetInput(w1,
                          "2", "width", request.width), "2", "height", request.height),
                          "2", "video_frames", request.num_frames),
                          "2", "motion_bucket_id", request.motion_bucket_id),
                          "2", "fps", request.fps)
                 ELSE w1
    IN  IF "3" \in DOMAIN w2 THEN SetInput(w2, "3", "seed", seed) ELSE w2

\* No builder call is being looked at.
NoBuild == [fn |-> "", done |-> FALSE]

\* workflow = load_..._workflow(): the call begins with the template read
\* from the file.
ImageCalls ==
    {[fn |-> "image", done |-> FALSE, template |-> t, request |-> r, drawn |-> NoSeed,
      workflow |-> t] : t \in ImageTemplates, r \in ImageRequests}

VideoCalls ==
    {[fn |-> "video", done |-> FALSE, template |-> t, request |-> r, drawn |-> NoSeed,
      workflow |-> t] : t \in VideoTemplates, r \in VideoRequests}

\* random.randint is called only when the request has no seed.
Draws(request) == IF request.seed = NoSeed THEN RandInts ELSE {NoSeed}

\* build_image_workflow(character, request) returns.
BuildImage ==
    /\ build.fn = "image"
    /\ ~build.done
    /\ \E drawn \in Draws(build.request) :
          build' = [build EXCEPT !.done = TRUE, !.drawn = drawn,
                                 !.workflow = BuildImageWorkflow(build.template, TheCharacter,
                                                                 build.request, drawn)]
    /\ UNCHANGED <<Settings, Registry, job, rec, call, word, training, emitted, resp>>

\* build_video_workflow(source_image_path, request) returns.
BuildVideo ==
    /\ build.fn = "video"
    /\ ~build.done
    /\ \E drawn \in Draws(build.request) :
          build' = [build EXCEPT !.done = TRUE, !.drawn = drawn,
                                 !.workflow = BuildVideoWorkflow(build.template, "source.png",
                                                                 build.request, drawn)]
    /\ UNCHANGED <<Settings, Registry, job, rec, call, word, training, emitted, resp>>

\* ------------------------------- the source image of a video, requested
\* VideoGenerationRequest: prompt min_length=1 max_length=1000 (plen, its
\* length), width ge=512 le=1024, height ge=320 le=576.
VideoRequestValid(r) ==
    /\ r.plen \in 1..1000
    /\ r.width \in 512..1024
    /\ r.height \in 320..576

\* ImageGenerationRequest: prompt min_length=1 max_length=1000, width and
\* height ge=512 le=2048; the other fields take their defaults.
ImageRequestValid(r) ==
    /\ r.plen \in 1..1000
    /\ r.width \in 512..2048
    /\ r.height \in 512..2048

NoImageRequest == [plen |-> 0, width |-> 0, height |-> 0]

\* Bodies POST /generate-video may receive, on both sides of every limit.
VideoBodies ==
    [plen : {0, 1, 1000, 1001}, width : {511, 512, 768, 1024, 1025},
     height : {319, 320, 448, 511, 512, 576, 577},
     source_image_url : {None, "", "https://images/source.png"}]

\* generate_video_task is called with a request that passed validation.
SourceCalls ==
    {[fn |-> "source", done |-> FALSE, request |-> r, outcome |-> "",
      image_request |-> NoImageRequest] : r \in {b \in VideoBodies : VideoRequestValid(b)}}

\* "if not request.source_image_url": ImageGenerationRequest(character_id,
\* prompt, width, height) is constructed, which validates its fields and
\* raises ValidationError inside the task's try block; then the image
\* workflow is built and submitted.  With a source URL the image is
\* downloaded instead.
BuildSourceRequest ==
    /\ build.fn = "source"
    /\ ~build.done
    /\ LET r == build.request
           ir == [plen |-> r.plen, width |-> r.width, height |-> r.height]
       IN  build' = IF r.source_image_url \notin {None, ""}
                       THEN [build EXCEPT !.done = TRUE, !.outcome = "download"]
                    ELSE IF ImageRequestValid(ir)
                       THEN [build EXCEPT !.done = TRUE, !.outcome = "submitted",
                                          !.image_request = ir]
                    ELSE [build EXCEPT !.done = TRUE, !.outcome = "ValidationError"]
    /\ UNCHANGED <<Settings, Registry, job, rec, call, word, training, emitted, resp>>

\* ------------------------------------- the manager and the client, called
Bool(b) == IF b THEN "True" ELSE "False"

CallVars(g) ==
    /\ pods' = g.pods
    /\ last_refresh' = g.last_refresh
    /\ ws_url' = g.ws_url
    /\ http_url' = g.http_url
    /\ fetch' = g.fetch
    /\ ok_age' = g.ok_age
    /\ last_get' = g.last_get
    /\ UNCHANGED <<Settings, job, rec, build, word, training, emitted, resp>>

CallFree == call.pc \in {"idle", "returned", "raised"}

NewCall(fn) == [NoCall EXCEPT !.fn = fn, !.since = last_refresh]

\* runpod_manager.is_configured is read.
ReadIsConfigured ==
    /\ CallFree
    /\ call' = [NewCall("is_configured") EXCEPT !.pc = "returned", !.ret = Bool(is_configured)]
    /\ CallVars(Shared)

\* refresh_pods(force) up to the listing request, or to its return when it
\* skips or when list_pods answers [] without a request.
CallRefreshPods(force) ==
    /\ CallFree
    /\ LET c == [NewCall("refresh_pods") EXCEPT !.force = force]
       IN  IF SkipRefresh(force, last_refresh)
              THEN /\ call' = [c EXCEPT !.pc = "returned"]
                   /\ CallVars(Shared)
           ELSE IF ListPodsSendsRequest
              THEN /\ call' = [c EXCEPT !.pc = "listing", !.sent = TRUE]
                   /\ CallVars([Shared EXCEPT !.fetch = 0])
           ELSE /\ call' = [c EXCEPT !.pc = "returned"]
                /\ CallVars([Install(Shared, <<>>, 0) EXCEPT !.ok_age = 0])

\* health_check with any status but an exception taken as healthy.
HealthCheckReturnAnyStatus(outcome) == outcome # "exception"

\* health_check: "return response.status_code == 200", and False from the
\* handler.
HealthCheckReturn(outcome) == outcome = "200"

\* health_check up to its first request: _get_http_url answers from the
\* cache or from get_comfyui_url, then GET {http_url}/system_stats is sent.
CallHealthCheck ==
    /\ CallFree
    /\ LET c == NewCall("health_check")
       IN  IF http_url # NoUrl
              THEN /\ call' = [c EXCEPT !.pc = "probe"]
                   /\ CallVars(Shared)
              ELSE LET r == GetComfyuiUrl(Shared)
                   IN  IF r.fetch
                          THEN /\ call' = [c EXCEPT !.pc = "listing", !.sent = TRUE]
                               /\ CallVars(r.g)
                          ELSE /\ call' = [c EXCEPT !.pc = "probe"]
                               /\ CallVars([r.g EXCEPT !.http_url = r.g.last_get.url])

\* The listing is answered and the pods probed: refresh_pods installs them;
\* under health_check, get_comfyui_url returns and the probe is sent.
CallListingDone(l, h) ==
    /\ call.pc = "listing"
    /\ LET fresh == [k \in 1..Len(l) |-> CheckPodHealth(l[k], h[k])]
           g0 == [Install(Shared, fresh, call.call_age) EXCEPT !.ok_age = call.call_age]
       IN  IF call.fn = "refresh_pods"
              THEN /\ call' = [call EXCEPT !.pc = "returned", !.call_age = 0]
                   /\ CallVars(g0)
              ELSE LET g1 == ReturnUrl(g0, TRUE)
                   IN  /\ call' = [call EXCEPT !.pc = "probe", !.call_age = 0]
                       /\ CallVars([g1 EXCEPT !.http_url = g1.last_get.url])

\* The listing fails: refresh_pods raises; health_check catches and returns
\* False.
CallListingFails(e) ==
    /\ call.pc = "listing"
    /\ call' = IF call.fn = "refresh_pods"
                  THEN [call EXCEPT !.pc = "raised", !.exc = e, !.call_age = 0]
                  ELSE [call EXCEPT !.pc = "returned", !.exc = e, !.call_age = 0,
                                    !.ret = Bool(FALSE)]
    /\ CallVars(Shared)

\* GET {http_url}/system_stats is answered or raises.
HealthProbe(outcome) ==
    /\ call.pc = "probe"
    /\ call' = [call EXCEPT !.pc = "returned", !.probe = outcome,
                            !.ret = Bool(HealthCheckReturn(outcome))]
    /\ CallVars(Shared)

\* ------------------------------------ refresh_pods, one await at a time
\* The map replaced as soon as list_pods returns, before the probes.
CallListedInstalls(l) ==
    /\ call.pc = "listing"
    /\ call.fn = "refresh_pods"
    /\ call' = [call EXCEPT !.pc = "probing", !.listed = l,
                            !.probed = {k \in 1..Len(l) : l[k].comfyui_url = NoUrl}]
    /\ CallVars(Install(Shared, l, call.call_age))

\* "pods = await self.list_pods()" returned: the Pod objects are new ones,
\* held by the call alone.  gather starts check_pod_health for each; for a
\* pod without URL it returns False at once.
CallListed(l) ==
    /\ call.pc = "listing"
    /\ call.fn = "refresh_pods"
    /\ call' = [call EXCEPT !.pc = "probing", !.listed = l,
                            !.probed = {k \in 1..Len(l) : l[k].comfyui_url = NoUrl}]
    /\ CallVars(Shared)

\* One check_pod_health of the gather returns: it sets is_healthy on the
\* Pod object it was given.
CallProbeDone(k, outcome) ==
    /\ call.pc = "probing"
    /\ k \in (1..Len(call.listed)) \ call.probed
    /\ call' = [call EXCEPT !.listed[k] = CheckPodHealth(@, outcome),
                            !.probed = @ \cup {k}]
    /\ CallVars(Shared)

\* gather returned: "self._pods = {pod.id: pod for pod in pods}" and
\* "self._last_refresh = now".
CallInstall ==
    /\ call.pc = "probing"
    /\ call.probed = 1..Len(call.listed)
    /\ call' = [call EXCEPT !.pc = "returned", !.call_age = 0, !.listed = <<>>,
                            !.probed = {}, !.data = <<>>]
    /\ CallVars([Install(Shared, call.listed, call.call_age) EXCEPT
                     !.ok_age = call.call_age])

\* Another coroutine calls get_comfyui_url while the refresh above is
\* awaiting: its own refresh_pods() skips inside the window and
\* get_available_pod filters the registry as it is.
ReaderGetComfyuiUrl ==
    /\ call.pc \in {"listing", "probing"}
    /\ LET r == GetComfyuiUrl(Shared)
       IN  /\ ~r.fetch
           /\ call' = call
           /\ CallVars(r.g)

\* ----------------------------------------- list_pods, the port mappings
\* One entry of runtime.ports.  A missing or null ip is "", a missing or
\* null publicPort is 0: both are falsy as the values themselves are.
PortEntries(ips) ==
    [ip : ips, isIpPublic : BOOLEAN, privatePort : {22, 8188}, publicPort : {0, 30000}]

\* runtime.ports: up to two entries, each with an ip of its own when it
\* has one.
PortLists ==
    {<<>>} \cup {<<a>> : a \in PortEntries({"", "10.0.0.1"})} \cup
    {<<a, b>> : a \in PortEntries({"", "10.0.0.1"}), b \in PortEntries({"", "10.0.0.2"})}

\* One pod of the answer: runtime is null or carries up to two entries.
PodData ==
    {[id |-> PodNames[1], desiredStatus |-> st, runtime |-> FALSE, ports |-> <<>>] :
        st \in {"RUNNING", "TERMINATED"}} \cup
    {[id |-> PodNames[1], desiredStatus |-> st, runtime |-> TRUE, ports |-> p] :
        st \in {"RUNNING", "TERMINATED"},
        p \in PortLists}

\* f"http://{ip}:{public_port}"
PortUrl(port) == Url("http", port.ip \o ":" \o ToString(port.publicPort), "")

\* The loop stopping at the first public entry for 8188 whatever it holds.
ComfyuiUrlFirstPublic(ports) ==
    LET public == SelectSeq(ports, LAMBDA port : port.privatePort = 8188 /\ port.isIpPublic)
    IN  IF public = <<>> THEN NoUrl
        ELSE IF public[1].ip # "" /\ public[1].publicPort # 0 THEN PortUrl(public[1])
        ELSE NoUrl

\* "for port in runtime["ports"]": the URL of the first entry that passes
\* both ifs, where the loop breaks; None when the loop runs out.
RECURSIVE ComfyuiUrlFromPorts(_)
ComfyuiUrlFromPorts(ports) ==
    IF ports = <<>>
        THEN NoUrl
        ELSE LET port == Head(ports)
             IN  IF port.privatePort = 8188 /\ port.isIpPublic
                    THEN IF port.ip # "" /\ port.publicPort # 0
                            THEN PortUrl(port)
                            ELSE ComfyuiUrlFromPorts(Tail(ports))
                    ELSE ComfyuiUrlFromPorts(Tail(ports))

\* PodStatus(status_str), ERROR on ValueError.
PodStatusOf(status_str) ==
    IF status_str \in {"RUNNING", "STARTING", "STOPPED", "EXITED", "ERROR"}
        THEN status_str ELSE "ERROR"

\* list_pods on the answer's pods.
ListPods(data) ==
    [k \in 1..Len(data) |->
        Pod(data[k].id, PodStatusOf(data[k].desiredStatus),
            IF data[k].runtime /\ data[k].ports # <<>>
               THEN ComfyuiUrlFromPorts(data[k].ports) ELSE NoUrl)]

\* "pods = await self.list_pods()" returned, on the answer data.
CallListedPorts(data) ==
    /\ call.pc = "listing"
    /\ call.fn = "refresh_pods"
    /\ LET l == ListPods(data)
       IN  call' = [call EXCEPT !.pc = "probing", !.listed = l, !.data = data,
                               !.probed = {k \in 1..Len(l) : l[k].comfyui_url = NoUrl}]
    /\ CallVars(Shared)

\* --------------------------------------------------------- trigger words
\* A string is the sequence of its characters; a character outside ASCII is
\* named by its code point.  The names are made of these: letters of both
\* cases, a digit, a space, a hyphen, U+00C9 (E acute), U+212A (Kelvin sign)
\* and U+0130 (I with dot above).
NameChars == {"A", "b", "7", " ", "-", "U+00C9", "U+212A", "U+0130"}

Names == UNION {[1..n -> NameChars] : n \in 0..MaxNameLen}

\* lower() leaving every character as it is.
LowerCharNot(c) == <<c>>

\* str.lower() on one character: U+212A becomes "k", U+0130 becomes "i"
\* followed by the combining dot U+0307.
LowerChar(c) ==
    CASE c = "A" -> <<"a">>
      [] c = "U+00C9" -> <<"U+00E9">>
      [] c = "U+212A" -> <<"k">>
      [] c = "U+0130" -> <<"i", "U+0307">>
      [] OTHER -> <<c>>

RECURSIVE Lower(_)
Lower(str) == IF str = <<>> THEN <<>> ELSE LowerChar(Head(str)) \o Lower(Tail(str))

\* The characters the pattern [^a-zA-Z0-9] does not match.
AsciiLowerCase == {"a", "b", "i", "k"}
AsciiUpperCase == {"A"}
AsciiDigits == {"7"}
KeptByPattern(c) == c \in AsciiLowerCase \cup AsciiUpperCase \cup AsciiDigits

\* re.sub(r"[^a-zA-Z0-9]", "", name.lower()) and f"sks_{clean_name}"
GenerateTriggerWord(name) ==
    <<"s", "k", "s", "_">> \o SelectSeq(Lower(name), KeptByPattern)

OnlyWord(w) ==
    /\ word' = w
    /\ UNCHANGED <<Settings, Registry, job, rec, build, call, training, emitted, resp>>

\* generate_trigger_word(name) returns.
CallGenerateTriggerWord ==
    /\ ~word.done
    /\ OnlyWord([word EXCEPT !.done = TRUE, !.result = GenerateTriggerWord(word.name)])

\* ------------------------------------------------------------- training
\* CharacterStatus
CHAR_PENDING == "pending"
CHAR_TRAINING == "training"
CHAR_READY == "ready"
CHAR_FAILED == "failed"

\* str(local_lora_path)
LocalLoraPath == "models/loras/ann.safetensors"

\* str(e) of what a step of the pipeline raises; a message may be empty.
TrainErrors == {"No LoRA file found after training", ""}

NotFoundMsg == "Character not found"

\* update_character_status writing the status alone.
UpdateCharacterStatusOnly(t, status, lora_path, error) ==
    IF t.status = "absent" THEN t ELSE [t EXCEPT !.status = status]

\* update_character_status: "if character:", the status always, lora_path
\* and training_error only when truthy.
UpdateCharacterStatus(t, status, lora_path, error) ==
    IF t.status = "absent"
        THEN t
        ELSE [t EXCEPT !.status = status,
                       !.lora_path = IF lora_path # None /\ lora_path # "" THEN lora_path ELSE @,
                       !.training_error = IF error # None /\ error # "" THEN error ELSE @]

OnlyTraining(c, t) ==
    /\ training' = [training EXCEPT ![c] = t]
    /\ UNCHANGED <<Settings, Registry, job, rec, build, call, word, emitted, resp>>

\* create_character: the row is inserted Pending and the task scheduled.
CreateCharacter(c) ==
    /\ training[c].pc = "idle"
    /\ OnlyTraining(c, [training[c] EXCEPT !.pc = "lookup", !.status = CHAR_PENDING])

\* delete_character, at any time the row exists.
DeleteCharacter(c) ==
    /\ training[c].status # "absent"
    /\ OnlyTraining(c, [training[c] EXCEPT !.status = "absent", !.lora_path = None,
                                           !.training_error = None])

\* start_lora_training reads the character: found, or RuntimeError.
TrainLookup(c) ==
    /\ training[c].pc = "lookup"
    /\ OnlyTraining(c, IF training[c].status = "absent"
                          THEN [training[c] EXCEPT !.pc = "except", !.raised = NotFoundMsg]
                          ELSE [training[c] EXCEPT !.pc = "mark_training"])

\* update_character_status(character_id, TRAINING)
MarkTraining(c) ==
    /\ training[c].pc = "mark_training"
    /\ OnlyTraining(c, [UpdateCharacterStatus(training[c], CHAR_TRAINING, None, None)
                           EXCEPT !.pc = "save_images"])

\* The steps between the two writes, in order: save_uploaded_images with
\* the captions and the configuration, run_training_subprocess, the upload
\* of the adapter with its local copy, the thumbnail.
NextTrainStep(pc) ==
    CASE pc = "save_images" -> "run_training"
      [] pc = "run_training" -> "upload_lora"
      [] pc = "upload_lora" -> "thumbnail"
      [] pc = "thumbnail" -> "mark_ready"

TrainSteps == {"save_images", "run_training", "upload_lora", "thumbnail"}

TrainStepOk(c) ==
    /\ training[c].pc \in TrainSteps
    /\ OnlyTraining(c, [training[c] EXCEPT !.pc = NextTrainStep(training[c].pc)])

TrainStepFails(c, e) ==
    /\ training[c].pc \in TrainSteps
    /\ OnlyTraining(c, [training[c] EXCEPT !.pc = "except", !.raised = e])

\* update_character_status(character_id, READY, lora_path=str(local_lora_path), ...)
MarkReady(c) ==
    /\ training[c].pc = "mark_ready"
    /\ OnlyTraining(c, [UpdateCharacterStatus(training[c], CHAR_READY, LocalLoraPath, None)
                           EXCEPT !.pc = "done"])

\* except Exception as e: update_character_status(FAILED, error=str(e)); raise
MarkTrainingFailed(c) ==
    /\ training[c].pc = "except"
    /\ OnlyTraining(c, [UpdateCharacterStatus(training[c], CHAR_FAILED, None,
                                              training[c].raised)
                           EXCEPT !.pc = "raised"])

\* ------------------------------------------------- the generation routes
\* get_ready_character with the check of the status left out.
GetReadyCharacterAnyStatus(t) ==
    IF t.status = "absent"
        THEN [code |-> 404, detail |-> "Character not found"]
        ELSE [code |-> 200, detail |-> ""]

\* get_ready_character on the row t: HTTPException 404 when there is none,
\* 400 when its status is not ready, 400 when its lora_path is falsy; else
\* the character is returned (code 200 here).
GetReadyCharacter(t) ==
    IF t.status = "absent"
        THEN [code |-> 404, detail |-> "Character not found"]
    ELSE IF t.status # CHAR_READY
        THEN [code |-> 400,
              detail |-> "Character not ready for generation. Current status: " \o t.status]
    ELSE IF t.lora_path \in {None, ""}
        THEN [code |-> 400,
              detail |-> "Character LoRA training not complete. Please wait for training to finish."]
    ELSE [code |-> 200, detail |-> ""]

\* POST /generate-image and POST /generate-video for character c: after
\* get_ready_character the row is inserted pending, the task is added to the
\* background tasks and the answer is 202; an HTTPException is the answer
\* otherwise.
PostGenerate(j, c, kind, src) ==
    /\ job[j].pc = "idle"
    /\ j <= requests
    /\ \A i \in Jobs : i < j => job[i].pc # "idle"
    /\ LET g == GetReadyCharacter(training[c])
       IN  IF g.code = 200
              THEN /\ rec' = [rec EXCEPT ![j] = NewRecord]
                   /\ job' = [job EXCEPT ![j] =
                                 [@ EXCEPT !.pc = "start", !.kind = kind, !.has_source = src,
                                           !.phase = IF kind = "video" /\ src
                                                        THEN "video" ELSE "image"]]
                   /\ resp' = [character |-> c, route |-> kind, code |-> 202,
                               detail |-> "", id |-> j]
              ELSE /\ resp' = [character |-> c, route |-> kind, code |-> g.code,
                               detail |-> g.detail, id |-> 0]
                   /\ UNCHANGED <<job, rec>>
    /\ UNCHANGED <<Settings, Registry, build, call, word, training, emitted>>

\* ------------------------------------------------------------ specification
InitProgram ==
    /\ pods = <<>>
    /\ last_refresh = NoRefresh
    /\ http_url = NoUrl
    /\ ws_url = NoUrl
    /\ job = [j \in Jobs |-> IdleJob]
    /\ rec = [j \in Jobs |-> NoRecord]
    /\ fetch = NoRefresh
    /\ ok_age = NoRefresh
    /\ last_get = NoGet

\* No call is made outside the tasks.
NoCalls ==
    /\ resp = NoResponse
    /\ build = NoBuild
    /\ call = NoCall
    /\ word = NoWord
    /\ training = NoTraining
    /\ emitted = {}
    /\ resp = NoResponse

Init ==
    /\ api_key \in CredValues
    /\ endpoint_id = api_key
    /\ pool = {}
    /\ requests = MaxJobs
    /\ InitProgram
    /\ NoCalls

Create(j) ==
    \E kind \in {"image", "video"}, src \in BOOLEAN :
        (kind = "image" => ~src) /\ CreateGeneration(j, kind, src)

\* The steps of a task up to the submission of its workflow.
ResolveStep(j) ==
    \/ MarkProcessing(j)
    \/ \E l \in Listings(pool) : \E h \in [1..Len(l) -> ProbeOutcomes] : ListingDone(j, l, h)
    \/ \E e \in NetErrors \cup {"RunPod API error"} : ListingFails(j, e)
    \/ SourceOk(j)
    \/ \E e \in NetErrors : SourceFails(j, e)
    \/ UploadImageOk(j)
    \/ \E e \in NetErrors : UploadImageFails(j, e)
    \/ MarkFailed(j)

\* The steps of a task from the submission on.
RunStep(j) ==
    \/ PostOk(j)
    \/ PostNoPromptId(j)
    \/ \E e \in NetErrors : PostFails(j, e)
    \/ ConnectOk(j)
    \/ \E e \in NetErrors : ConnectFails(j, e)
    \/ LoopTop(j)
    \/ \E ev \in Events : RecvEvent(j, ev)
    \/ RecvTimeout(j)
    \/ RecvFails(j)
    \/ \E h \in Histories : HistoryOk(j, h)
    \/ \E e \in NetErrors : HistoryFails(j, e)
    \/ \E empty \in BOOLEAN : ViewOk(j, empty)
    \/ \E e \in NetErrors : ViewFails(j, e)
    \/ UploadOk(j)
    \/ \E e \in NetErrors : UploadFails(j, e)

JobStep(j) == ResolveStep(j) \/ RunStep(j)

Next ==
    \/ \E j \in Jobs : Create(j)
    \/ \E j \in Jobs : JobStep(j)
    \/ \E d \in WallSteps : TickWall(d)
    \/ \E d \in LoopSteps : TickLoop(d)

Spec == Init /\ [][Next]_vars

\* The worker pool: every credential setting, an account with MaxPods pods
\* and one request, up to the submission of its workflow.
InitPool ==
    /\ api_key \in CredValues
    /\ endpoint_id \in CredValues
    /\ pool = PodIds
    /\ requests = 1
    /\ InitProgram
    /\ NoCalls

NextPool ==
    \/ \E j \in Jobs : Create(j)
    \/ \E j \in Jobs : ResolveStep(j)
    \/ \E d \in WallSteps : TickWall(d)

SpecPool == InitPool /\ [][NextPool]_vars

\* The one client object under MaxJobs tasks: every credential setting, an
\* account with one pod, up to the submission of the workflows.
InitOnePod ==
    /\ api_key \in CredValues
    /\ endpoint_id \in CredValues
    /\ pool = {PodNames[1]}
    /\ requests = MaxJobs
    /\ InitProgram
    /\ NoCalls

SpecShared == InitOnePod /\ [][NextPool]_vars

\* The event loop runs every task that can take a step, and the loop
\* clock advances while a wait lasts.
Fairness ==
    /\ \A j \in Jobs : WF_vars(JobStep(j))
    /\ WF_vars(\E d \in LoopSteps : TickLoop(d))

\* One request, configured or not, run to its end.
InitLive ==
    /\ api_key \in CredValues
    /\ endpoint_id = api_key
    /\ pool = {}
    /\ requests = 1
    /\ InitProgram
    /\ NoCalls

SpecLive == InitLive /\ [][Next]_vars /\ Fairness

\* The workflow builders, each called once on every template and request.
InitBuild ==
    /\ api_key = ""
    /\ endpoint_id = ""
    /\ pool = {}
    /\ requests = 0
    /\ InitProgram
    /\ \/ build \in ImageCalls
       \/ build \in VideoCalls
    /\ call = NoCall
    /\ word = NoWord
    /\ training = NoTraining
    /\ emitted = {}
    /\ resp = NoResponse

NextBuild == BuildImage \/ BuildVideo

SpecBuild == InitBuild /\ [][NextBuild]_vars

\* The manager and the client called from outside the tasks, one call after
\* the other: every credential setting, an account with one pod.
InitCalls ==
    /\ api_key \in CredValues
    /\ endpoint_id \in CredValues
    /\ pool = {PodNames[1]}
    /\ requests = 0
    /\ InitProgram
    /\ NoCalls

NextCalls ==
    \/ ReadIsConfigured
    \/ \E force \in BOOLEAN : CallRefreshPods(force)
    \/ CallHealthCheck
    \/ \E l \in Listings(pool) : \E h \in [1..Len(l) -> ProbeOutcomes] : CallListingDone(l, h)
    \/ \E e \in NetErrors \cup {"RunPod API error"} : CallListingFails(e)
    \/ \E outcome \in ProbeOutcomes : HealthProbe(outcome)
    \/ \E d \in WallSteps : TickWall(d)

SpecCalls == InitCalls /\ [][NextCalls]_vars

\* refresh_pods called again and again on a configured account of MaxPods
\* pods, each of its awaits a step, with a reader of the registry.
InitProbes ==
    /\ api_key = "set"
    /\ endpoint_id = "set"
    /\ pool = PodIds
    /\ requests = 0
    /\ InitProgram
    /\ NoCalls

\* The answers in which every pod is running and the pods come in the order
\* of their names.
RunningListings(p) ==
    {l \in Listings(p) : /\ \A k \in 1..Len(l) : l[k].status = "RUNNING"
                         /\ Len(l) = 2 => l[1].id = PodNames[1]}

NextProbes ==
    \/ \E force \in BOOLEAN : CallRefreshPods(force)
    \/ \E l \in RunningListings(pool) : CallListed(l)
    \/ \E k \in 1..MaxPods : \E outcome \in ProbeOutcomes : CallProbeDone(k, outcome)
    \/ CallInstall
    \/ \E e \in NetErrors \cup {"RunPod API error"} : CallListingFails(e)
    \/ ReaderGetComfyuiUrl
    \/ \E d \in WallSteps : TickWall(d)

SpecProbes == InitProbes /\ [][NextProbes]_vars

\* generate_video_task up to its first workflow, for every accepted body.
InitSource ==
    /\ api_key = ""
    /\ endpoint_id = ""
    /\ pool = {}
    /\ requests = 0
    /\ InitProgram
    /\ build \in SourceCalls
    /\ call = NoCall
    /\ word = NoWord
    /\ training = NoTraining
    /\ emitted = {}
    /\ resp = NoResponse

NextSource == BuildSourceRequest

SpecSource == InitSource /\ [][NextSource]_vars

\* refresh_pods on an account of one pod with every port mapping, then
\* health_check selecting from the registry.
InitPorts ==
    /\ api_key = "set"
    /\ endpoint_id = "set"
    /\ pool = {PodNames[1]}
    /\ requests = 0
    /\ InitProgram
    /\ NoCalls

NextPorts ==
    \/ \E force \in BOOLEAN : CallRefreshPods(force)
    \/ \E data \in UNION {[1..n -> PodData] : n \in 0..1} : CallListedPorts(data)
    \/ \E outcome \in ProbeOutcomes : CallProbeDone(1, outcome)
    \/ CallInstall
    \/ CallHealthCheck
    \/ \E outcome \in ProbeOutcomes : HealthProbe(outcome)

SpecPorts == InitPorts /\ [][NextPorts]_vars

\* MaxChars characters, created, trained and possibly deleted meanwhile.
InitTraining ==
    /\ api_key = ""
    /\ endpoint_id = ""
    /\ pool = {}
    /\ requests = 0
    /\ InitProgram
    /\ NoCalls

TrainingStep(c) ==
    \/ CreateCharacter(c)
    \/ DeleteCharacter(c)
    \/ TrainLookup(c)
    \/ MarkTraining(c)
    \/ TrainStepOk(c)
    \/ \E e \in TrainErrors : TrainStepFails(c, e)
    \/ MarkReady(c)
    \/ MarkTrainingFailed(c)

NextTraining == \E c \in Chars : TrainingStep(c)

SpecTraining == InitTraining /\ [][NextTraining]_vars

\* Requests for generations arrive while characters are created, trained
\* and deleted.
InitRoutes ==
    /\ api_key = ""
    /\ endpoint_id = ""
    /\ pool = {}
    /\ requests = MaxJobs
    /\ InitProgram
    /\ NoCalls

NextRoutes ==
    \/ \E c \in Chars : TrainingStep(c)
    \/ \E j \in Jobs, c \in Chars, kind \in {"image", "video"}, src \in BOOLEAN :
          (kind = "image" => ~src) /\ PostGenerate(j, c, kind, src)

SpecRoutes == InitRoutes /\ [][NextRoutes]_vars

\* generate_trigger_word, called once on every name.
InitWord ==
    /\ api_key = ""
    /\ endpoint_id = ""
    /\ pool = {}
    /\ requests = 0
    /\ InitProgram
    /\ build = NoBuild
    /\ call = NoCall
    /\ training = NoTraining
    /\ emitted = {}
    /\ resp = NoResponse
    /\ word \in {[name |-> n, done |-> FALSE, result |-> <<>>] : n \in Names}

SpecWord == InitWord /\ [][CallGenerateTriggerWord]_vars

\* One request and a worker that may end the prompt at any moment after the
\* submission.
NextWorker ==
    \/ Next
    \/ \E j \in Jobs : WorkerEndsUnobserved(j)

SpecWorker == InitLive /\ [][NextWorker]_vars

\* -------------------------------------------------------------- properties
\* C1: the wait loop of execute_workflow ends, by break or by raise, only on
\* a frame that carries the prompt id of this call's own submission; a frame
\* of another prompt, whatever its type, leaves the loop running.
C1_ForeignEventNeverEndsWait ==
    \A j \in Jobs :
        job[j].last_ev # NoEvent =>
            /\ job[j].last_ev.prompt_id = job[j].prompt_id
            /\ job[j].prompt_id # NoPrompt

\* A task still waiting after it received an ending frame of another prompt.
C1_Witness ==
    \E j \in Jobs : job[j].pc = "loop" /\ job[j].skipped

\* C2: a record whose status is Completed or Failed is changed by no step:
\* its status, its output URL and its error text stay as they are.
C2_TerminalRecordIsFinal ==
    [][\A j \in Jobs : rec[j].status \in {COMPLETED, FAILED} => rec'[j] = rec[j]]_vars

\* One record is terminal while another task is about to write its own.
C2_Witness ==
    \E i, j \in Jobs :
        /\ i # j
        /\ rec[i].status \in {COMPLETED, FAILED}
        /\ job[i].pc \in {"done", "raised"}
        /\ job[j].pc \in {"except", "upload"}

\* C3: every task that was started leaves its record Completed or Failed,
\* and no task has ended with its record Pending or Processing.
C3_StartedEndsTerminal ==
    /\ \A j \in Jobs : (job[j].pc = "start") ~> (rec[j].status \in {COMPLETED, FAILED})
    /\ [](\A j \in Jobs : job[j].pc \in {"done", "raised"} =>
                               rec[j].status \in {COMPLETED, FAILED})

\* A task whose wait timed out has ended with its record Failed.
C3_Witness ==
    \E j \in Jobs :
        /\ job[j].pc = "raised"
        /\ job[j].exc = TimeoutMsg(ImageTimeout)
        /\ rec[j].status = FAILED

\* C4: when a task has ended by raising, its record is Failed, the record's
\* error text is the message of the exception, and that exception is the
\* one raised to the caller.
C4_FailedCarriesMessage ==
    \A j \in Jobs :
        job[j].pc = "raised" =>
            /\ rec[j].status = FAILED
            /\ rec[j].error = job[j].exc
            /\ job[j].raised = job[j].exc

C6_NoRequestWithinWindowOfCompletedRefresh ==
    \A j \in Jobs :
        job[j].pc = "listing" =>
            \/ job[j].since_ok = NoRefresh
            \/ job[j].since_ok >= HealthCheckInterval

\* A call inside the window of a completed refresh returned without a request.
C6_Witness ==
    /\ last_get.asked
    /\ ~last_get.fetched
    /\ ok_age # NoRefresh
    /\ ok_age < HealthCheckInterval

\* C6 as stated: a refresh_pods(force=False) call that sends a listing
\* request began at least HealthCheckInterval seconds after the call that
\* sent the request before it, whether or not that one has returned.
C6_AtMostOneRequestPerWindow ==
    \A j \in Jobs :
        job[j].pc = "listing" =>
            \/ job[j].gap = NoRefresh
            \/ job[j].gap >= HealthCheckInterval

InFlight(j) == job[j].pc \in {"post", "connect", "loop", "recv"}

\* C7: two tasks in flight at the same time carry different client ids on
\* their submissions and duplex connections.
C7_FreshSessionPerJob ==
    \A i, j \in Jobs :
        i # j /\ InFlight(i) /\ InFlight(j) => job[i].client_id # job[j].client_id

\* C8: a task whose workflow is submitted has asked the selector for the
\* target of the submission, and is not submitted to a pod the registry
\* holds as not RUNNING, unhealthy or without endpoint at that moment.
C8_ResolvedThroughSelector ==
    [][\A j \in Jobs :
          job[j].pc # "post" /\ job'[j].pc = "post" =>
              /\ "http" \in job'[j].resolved
              /\ job'[j].post_url \notin {PodUrl(p) : p \in Ineligible(pods')}]_vars

\* C9: get_comfyui_url returns the static endpoint only when the pool is not
\* configured or get_available_pod returned None; a pod it returned is the
\* target.
C9_StaticOnlyWithoutWorker ==
    /\ last_get.url = comfyui_http_url => ~is_configured \/ last_get.picked = NoPod
    /\ last_get.picked # NoPod => last_get.url = last_get.picked.comfyui_url

\* The pool is configured and lists pods, none eligible: the static endpoint.
C9_Witness ==
    /\ is_configured
    /\ last_get.asked
    /\ Len(last_get.snap) > 0
    /\ last_get.picked = NoPod
    /\ last_get.url = comfyui_http_url

\* C9 as stated: a submission goes to the static endpoint only when the pool
\* is not configured.
C9_StaticOnlyWhenUnconfigured ==
    \A j \in Jobs :
        job[j].pc = "post" /\ job[j].post_url = comfyui_http_url => ~is_configured

\* C10: with the API key or the endpoint id missing, get_comfyui_url has
\* returned nothing but settings.comfyui_http_url, no call of it is waiting
\* for the control plane or has sent it a request, and the registry is empty.
C10_UnconfiguredUsesStatic ==
    ~is_configured =>
        /\ last_get # NoGet => last_get.url = comfyui_http_url /\ ~last_get.fetched
        /\ http_url \in {NoUrl, comfyui_http_url}
        /\ \A j \in Jobs : job[j].pc # "listing"
        /\ fetch = NoRefresh
        /\ pods = <<>>

\* Unconfigured, with pods in the account: a workflow goes to the static
\* endpoint.
C10_Witness ==
    /\ ~is_configured
    /\ pool # {}
    /\ last_get.url = comfyui_http_url
    /\ \E j \in Jobs : job[j].pc = "post" /\ job[j].post_url = comfyui_http_url

\* C11: an "executing" frame with this call's prompt id and a null node
\* ends the wait without error; the history request is outstanding only
\* after the wait has ended that way and is keyed by that prompt id; the
\* outputs the task works on were found under that prompt id.
C11_CompletionThenHistoryOfOwnPrompt ==
    \A j \in Jobs :
        /\ job[j].missed # "executing"
        /\ job[j].pc = "history" =>
              /\ job[j].last_ev.type = "executing"
              /\ job[j].last_ev.node = None
              /\ job[j].last_ev.prompt_id = job[j].prompt_id
              /\ job[j].prompt_id = PromptId(j, job[j].nsub)
              /\ job[j].hist_key = job[j].prompt_id
              /\ job[j].exc = None
        /\ job[j].hist_key # NoPrompt => job[j].pc = "history"
        /\ job[j].pc \in {"view", "upload"} => job[j].found

\* A task downloads an artifact of the outputs it found under its prompt id.
C11_Witness ==
    \E j \in Jobs : job[j].pc = "view" /\ job[j].found /\ job[j].artifact = "yes"

\* C12: an "execution_error" frame with this call's prompt id ends the wait
\* with the error that carries the worker's exception_message; the task then
\* makes no request and ends with its record Failed and that error text.
C12_RemoteErrorFailsWithWorkerMessage ==
    /\ [](\A j \in Jobs :
            /\ job[j].missed # "execution_error"
            /\ job[j].last_ev.type = "execution_error" =>
                  /\ job[j].pc = "except"
                  /\ job[j].last_ev.prompt_id = job[j].prompt_id
                  /\ job[j].hist_key = NoPrompt
                  /\ job[j].last_ev.exception_message = "OOM" =>
                        job[j].exc = "Workflow execution failed: OOM")
    /\ [][\A j \in Jobs :
            job[j].last_ev.type = "execution_error" =>
                \/ job'[j] = job[j]
                \/ /\ job'[j].pc = "raised"
                   /\ rec'[j].status = FAILED
                   /\ rec'[j].error = job[j].exc]_vars

\* A record is Failed with the worker's message in its error text.
C12_Witness ==
    \E j \in Jobs :
        /\ job[j].pc = "raised"
        /\ rec[j].status = FAILED
        /\ rec[j].error = "Workflow execution failed: OOM"

\* C13: at the top of the loop with more than the declared timeout elapsed
\* (300 s, 600 s for the video workflow) the call raises the timeout error
\* naming that value, with the connection closed and no history request;
\* the task then makes no request and ends with its record Failed and that
\* message.
C13_TimeoutFailsWithDeclaredValue ==
    [][\A j \in Jobs :
          /\ (job[j].pc = "loop" /\ job[j].phase = "image"
                 /\ job[j].elapsed > ImageTimeout) =>
                \/ job'[j] = job[j]
                \/ /\ job'[j].pc = "except"
                   /\ job'[j].exc = "Workflow execution timed out after 300.0s"
                   /\ job'[j].conn_url = NoUrl
                   /\ job'[j].hist_key = NoPrompt
          /\ (job[j].pc = "loop" /\ job[j].phase = "video"
                 /\ job[j].elapsed > VideoTimeout) =>
                \/ job'[j] = job[j]
                \/ /\ job'[j].pc = "except"
                   /\ job'[j].exc = "Workflow execution timed out after 600.0s"
                   /\ job'[j].conn_url = NoUrl
                   /\ job'[j].hist_key = NoPrompt
          /\ (job[j].pc = "except"
                 /\ job[j].exc \in {"Workflow execution timed out after 300.0s",
                                     "Workflow execution timed out after 600.0s"}) =>
                \/ job'[j] = job[j]
                \/ /\ job'[j].pc = "raised"
                   /\ rec'[j].status = FAILED
                   /\ rec'[j].error = job[j].exc]_vars

\* A video task's wait timed out and its record is Failed with the message
\* naming 600.0.
C13_Witness ==
    \E j \in Jobs :
        /\ job[j].pc = "raised"
        /\ rec[j].status = FAILED
        /\ rec[j].error = "Workflow execution timed out after 600.0s"

C15_FailedProbeUnhealthyAndExcluded ==
    LET Failed(pod) == pod.probe \in {"500", "exception"}
    IN  /\ \A k \in 1..Len(pods) : Failed(pods[k]) => ~pods[k].is_healthy
        /\ \A k \in 1..Len(last_get.snap) :
              Failed(last_get.snap[k]) =>
                  /\ ~last_get.snap[k].is_healthy
                  /\ last_get.picked # last_get.snap[k]
        /\ ~Failed(last_get.picked)
        /\ (\E k \in 1..Len(pods) : Failed(pods[k])) => last_refresh # NoRefresh

\* A refresh has returned with a Running pod whose probe was answered 500,
\* and the selector passed over it.
C15_Witness ==
    /\ last_get.fetched
    /\ \E k \in 1..Len(last_get.snap) :
          /\ last_get.snap[k].status = "RUNNING"
          /\ last_get.snap[k].probe = "500"
          /\ last_get.picked # last_get.snap[k]

\* C16: when the listing request of a refresh fails, the exception leaves
\* refresh_pods and reaches the task's handler, and the registry and the
\* time of the last refresh are what they were before the call failed.
C16_FailedListingLeavesRegistry ==
    [][\A j \in Jobs :
          (job[j].pc = "listing" /\ job'[j].pc # "listing") =>
              \/ job'[j].exc = None /\ job'[j].pc # "except"
              \/ /\ job'[j].pc = "except"
                 /\ job'[j].exc \in NetErrors \cup {"RunPod API error"}
                 /\ pods' = pods
                 /\ last_refresh' = last_refresh]_vars

\* A listing failed after an earlier refresh had filled the registry, which
\* still holds that refresh's pod.
C16_Witness ==
    \E j \in Jobs :
        /\ job[j].pc = "except"
        /\ job[j].exc = "RunPod API error"
        /\ job[j].nsub = 0
        /\ last_refresh # NoRefresh
        /\ Len(pods) > 0

\* C17: a run submits each workflow at most once, one submission for an
\* image task and at most two for a video task, and after any step of it
\* has raised its only further step is the Failed write.
C17_NoRetryWithinRun ==
    /\ [](\A j \in Jobs :
            /\ job[j].kind = "image" => job[j].nsub <= 1
            /\ job[j].kind = "video" =>
                  /\ job[j].nsub <= 2
                  /\ job[j].phase = "image" => job[j].nsub <= 1
                  /\ job[j].has_source => job[j].nsub <= 1)
    /\ [][\A j \in Jobs :
            job[j].exc # None =>
                \/ job'[j] = job[j]
                \/ /\ job[j].pc = "except"
                   /\ job'[j].pc = "raised"
                   /\ rec'[j].status = FAILED]_vars

\* The second submission of a video task failed: the task is in its
\* handler with those two submissions.
C17_Witness ==
    \E j \in Jobs :
        /\ job[j].kind = "video"
        /\ job[j].pc = "except"
        /\ job[j].exc = "HTTPStatusError"
        /\ job[j].nsub = 2

\* C18: a task past its first statement has its record out of Pending, and
\* at that statement it has resolved no endpoint and sent nothing; a
\* record's status only goes from Pending to Processing and from
\* Processing to Completed or Failed.
C18_ProcessingFirstAndTransitions ==
    /\ [](\A j \in Jobs :
            /\ job[j].pc \notin {"idle", "start"} => rec[j].status \notin {"absent", PENDING}
            /\ job[j].pc \in {"idle", "start"} =>
                  /\ job[j].resolved = {}
                  /\ job[j].post_url = NoUrl
                  /\ job[j].conn_url = NoUrl
                  /\ job[j].nsub = 0)
    /\ [][\A j \in Jobs :
            rec'[j].status # rec[j].status =>
                <<rec[j].status, rec'[j].status>> \in
                    {<<"absent", PENDING>>, <<PENDING, PROCESSING>>,
                     <<PROCESSING, COMPLETED>>, <<PROCESSING, FAILED>>}]_vars

\* A task is about to submit and its record is Processing.
C18_Witness ==
    \E j \in Jobs : job[j].pc = "post" /\ rec[j].status = PROCESSING

\* C19: a task that opens or holds a connection, awaits an event or looks
\* up the history holds the prompt_id of its last submission; a submission
\* answered without prompt_id raises, with no connection and no further
\* submission, and the record ends Failed.
C19_MissingPromptIdIsHardError ==
    /\ [](\A j \in Jobs :
            /\ job[j].pc \in {"connect", "loop", "recv", "history"} =>
                  /\ job[j].nsub > 0
                  /\ job[j].prompt_id = PromptId(j, job[j].nsub)
            /\ job[j].exc = KeyErrorPromptId =>
                  /\ job[j].pc \in {"except", "raised"}
                  /\ job[j].conn_url = NoUrl
                  /\ job[j].pc = "raised" => rec[j].status = FAILED)
    /\ [][\A j \in Jobs :
            job[j].exc = KeyErrorPromptId =>
                \/ job'[j] = job[j]
                \/ job[j].pc = "except" /\ job'[j].pc = "raised"]_vars

\* A submission was answered without prompt_id and the record is Failed.
C19_Witness ==
    \E j \in Jobs :
        /\ job[j].pc = "raised"
        /\ job[j].exc = KeyErrorPromptId
        /\ rec[j].status = FAILED

\* C20: a task fetches or uploads an artifact only after outputs in which
\* some entry carries one with a filename; outputs of the final workflow
\* without such an entry raise the no-output error, and the record ends
\* Failed.
C20_NoArtifactNoUpload ==
    /\ [](\A j \in Jobs :
            /\ job[j].pc \in {"view", "upload"} => job[j].artifact = "yes"
            /\ (job[j].artifact = "no" /\ (job[j].kind = "image" \/ job[j].phase = "video")) =>
                  /\ job[j].pc = "except"
                  /\ job[j].exc = IF job[j].phase = "video" THEN NoVideoMsg ELSE NoImageMsg)
    /\ [][\A j \in Jobs :
            job[j].artifact = "no" =>
                \/ job'[j] = job[j]
                \/ /\ job'[j].pc = "raised"
                   /\ rec'[j].status = FAILED
                   /\ rec'[j].url = None]_vars

\* The outputs of a video workflow held no gifs entry with a filename.
C20_Witness ==
    \E j \in Jobs :
        /\ job[j].phase = "video"
        /\ job[j].artifact = "no"
        /\ job[j].exc = NoVideoMsg

\* C21: the seed a builder writes into sampler node "3" is the request's
\* seed when the request has one, 0 included, and otherwise an integer from
\* 0 to 2^32 - 1.
C21_SeedExactOrInRange ==
    (build.done /\ "3" \in DOMAIN build.workflow) =>
        LET written == build.workflow["3"].inputs["seed"]
        IN  IF build.request.seed # NoSeed
               THEN written = build.request.seed
               ELSE InSeedRange(written)

\* A request with seed 0 was built on a template whose sampler held another
\* seed, and 0 was written.
C21_Witness ==
    /\ build.done
    /\ build.request.seed = Num(0, 0)
    /\ "3" \in DOMAIN build.template
    /\ "seed" \in DOMAIN build.template["3"].inputs
    /\ build.template["3"].inputs["seed"] # Num(0, 0)
    /\ build.workflow["3"].inputs["seed"] = Num(0, 0)

\* The keys build_image_workflow writes.
KnownImageKeys ==
    {<<"3", "seed">>, <<"3", "steps">>, <<"3", "cfg">>, <<"5", "width">>, <<"5", "height">>,
     <<"6", "text">>, <<"7", "text">>, <<"10", "lora_name">>, <<"10", "strength_model">>,
     <<"10", "strength_clip">>}

\* C22: build_image_workflow returns the template with the same nodes, each
\* with its class and every input outside the known keys as the template
\* has them, and with every known key of a node that is present set from
\* the request, whether or not node "5" is present.
C22_OnlyKnownKeysChange ==
    (build.fn = "image" /\ build.done) =>
        LET t == build.template
            w == build.workflow
            r == build.request
        IN  /\ DOMAIN w = DOMAIN t
            /\ \A n \in DOMAIN t :
                  /\ w[n].class_type = t[n].class_type
                  /\ DOMAIN w[n].inputs =
                        DOMAIN t[n].inputs \cup {k[2] : k \in {q \in KnownImageKeys : q[1] = n}}
                  /\ \A k \in DOMAIN t[n].inputs :
                        <<n, k>> \notin KnownImageKeys => w[n].inputs[k] = t[n].inputs[k]
            /\ "3" \in DOMAIN t =>
                  /\ w["3"].inputs["steps"] = r.num_inference_steps
                  /\ w["3"].inputs["cfg"] = r.guidance_scale
            /\ "5" \in DOMAIN t =>
                  /\ w["5"].inputs["width"] = r.width
                  /\ w["5"].inputs["height"] = r.height
            /\ "6" \in DOMAIN t => w["6"].inputs["text"] = Str("sks_ann, portrait")
            /\ "7" \in DOMAIN t => w["7"].inputs["text"] = Str(r.negative_prompt)
            /\ "10" \in DOMAIN t =>
                  /\ w["10"].inputs["lora_name"] = Str("ann.safetensors")
                  /\ w["10"].inputs["strength_model"] = r.lora_strength
                  /\ w["10"].inputs["strength_clip"] = r.lora_strength

\* The builder returned on a template without node "5", with the prompt
\* and the adapter written.
C22_Witness ==
    /\ build.fn = "image"
    /\ build.done
    /\ "5" \notin DOMAIN build.workflow
    /\ "6" \in DOMAIN build.workflow
    /\ "10" \in DOMAIN build.workflow
    /\ build.workflow["6"].inputs["text"] # build.template["6"].inputs["text"]
    /\ build.workflow["10"].inputs["lora_name"] # build.template["10"].inputs["lora_name"]

\* C23: a configured manager sends a listing request on every
\* refresh_pods(force=True), however recent the last refresh; one that is
\* not configured sends none.
C23_ForceFetchesWhenConfigured ==
    (call.fn = "refresh_pods" /\ call.force) => (call.sent <=> is_configured)

\* A forced refresh sent its request within the window of the last one.
C23_Witness ==
    /\ call.fn = "refresh_pods"
    /\ call.force
    /\ call.sent
    /\ call.since # NoRefresh
    /\ call.since < HealthCheckInterval

\* C23 as stated: every refresh_pods(force=True) sends a listing request.
C23_ForceAlwaysFetches ==
    (call.fn = "refresh_pods" /\ call.force) => call.sent

\* C26: is_configured is true exactly when the API key and the endpoint id
\* are both non-empty.
C26_ConfiguredIffBothSet ==
    call.fn = "is_configured" =>
        /\ call.ret \in {"True", "False"}
        /\ call.ret = "True" <=> (api_key # "" /\ endpoint_id # "")

\* With the key set and the endpoint id empty, is_configured was False.
C26_Witness ==
    /\ call.fn = "is_configured"
    /\ api_key # ""
    /\ endpoint_id = ""
    /\ call.ret = "False"

\* C27: health_check never raises and returns a boolean: True exactly when
\* its GET /system_stats was answered 200, False for another status, for an
\* exception of the request and for one raised while the URL was resolved.
C27_HealthCheckBoolean ==
    call.fn = "health_check" =>
        /\ call.pc # "raised"
        /\ call.pc = "returned" =>
              /\ call.ret \in {"True", "False"}
              /\ call.ret = "True" <=> call.probe = "200"
              /\ call.exc # None => call.ret = "False" /\ call.probe = ""

\* The listing failed while health_check resolved the URL: it returned False
\* without a probe.
C27_Witness ==
    /\ call.fn = "health_check"
    /\ call.pc = "returned"
    /\ call.exc = "RunPod API error"
    /\ call.ret = "False"

\* C24: every record whose status is Failed has an error text, and once
\* the task has ended the text is the message of the exception it raised.
C24_FailedHasErrorText ==
    \A j \in Jobs :
        rec[j].status = FAILED =>
            /\ rec[j].error # None
            /\ job[j].pc = "raised" => rec[j].error = job[j].raised

\* C25: the task changes a character's status only from Pending to
\* Training and from Training to Ready or Failed; a Ready character has its
\* lora_path set; a task that failed has raised, and the character, when it
\* still exists, is Failed.
C25_TrainingStatusPath ==
    /\ [](\A c \in Chars :
            /\ training[c].status = CHAR_READY => training[c].lora_path \notin {None, ""}
            /\ training[c].pc = "raised" =>
                  /\ training[c].raised # None
                  /\ training[c].status \in {"absent", CHAR_FAILED}
            /\ training[c].pc = "except" => training[c].raised # None)
    /\ [][\A c \in Chars :
            training'[c].status # training[c].status =>
                \/ training'[c].status = "absent"
                \/ <<training[c].status, training'[c].status>> \in
                      {<<"absent", CHAR_PENDING>>, <<CHAR_PENDING, CHAR_TRAINING>>,
                       <<CHAR_TRAINING, CHAR_READY>>, <<CHAR_TRAINING, CHAR_FAILED>>}]_vars

\* The training run failed on a character that was Training: the task has
\* raised and the character is Failed.
C25_Witness ==
    \E c \in Chars :
        /\ training[c].pc = "raised"
        /\ training[c].raised = "No LoRA file found after training"
        /\ training[c].status = CHAR_FAILED

\* C28: generate_trigger_word(name) is "sks_" followed by the lower-cased
\* name without its characters outside a-z and 0-9, so that it holds, after
\* the prefix, only lowercase ASCII letters and digits.
C28_TriggerWordShape ==
    word.done =>
        LET InAz09(c) == c \in AsciiLowerCase \cup AsciiDigits
        IN  /\ word.result = <<"s", "k", "s", "_">> \o SelectSeq(Lower(word.name), InAz09)
            /\ \A i \in 5..Len(word.result) : InAz09(word.result[i])

\* A name with an uppercase letter, a space and a digit gave "sks_a7".
C28_Witness ==
    /\ word.done
    /\ word.name = <<"A", " ", "7">>
    /\ word.result = <<"s", "k", "s", "_", "a", "7">>

\* C30: the duplex URL a task connects to is the rewrite, with /ws, of the
\* HTTP base its submission is sent to.
C30_OneEndpointPerJob ==
    \A j \in Jobs :
        job[j].pc = "post" => job[j].ws = HttpToWs(job[j].post_url)

\* C29: a task whose prompt the worker has ended, at whatever moment after
\* the submission, does not run into the timeout of its wait.
C29_EndedPromptNeverTimesOut ==
    \A j \in Jobs :
        (job[j].pc = "except" /\ job[j].prompt_id \in emitted) =>
            job[j].exc \notin {TimeoutMsg(ImageTimeout), TimeoutMsg(VideoTimeout)}

\* C31: when a refresh installs its listing, _last_refresh does not move
\* back: the reading of the clock it stores is not older than the one it
\* replaces.
C31_LastRefreshNeverMovesBack ==
    [][\A j \in Jobs :
          (job[j].pc = "listing" /\ job'[j].pc # "listing" /\ last_refresh # NoRefresh) =>
              last_refresh' <= last_refresh]_vars

\* C33: within one job the steps run one after the other: the submission,
\* the ending frame of the wait, the history request, the download, the
\* storage upload, the COMPLETED write; a record becomes completed only by
\* the step in which the storage upload returned its URL.
C33_StepsInOrder ==
    [][\A j \in Jobs :
          /\ (job'[j].pc = "connect" /\ job[j].pc # "connect") =>
                 (job[j].pc = "post" /\ job'[j].prompt_id # NoPrompt)
          /\ (job'[j].pc = "history" /\ job[j].pc # "history") =>
                 /\ job[j].pc = "recv"
                 /\ EndsWait(job'[j].last_ev)
                 /\ job'[j].last_ev.prompt_id = job[j].prompt_id
          /\ (job'[j].pc = "view" /\ job[j].pc # "view") => job[j].pc = "history"
          /\ (job'[j].pc = "upload" /\ job[j].pc # "upload") => job[j].pc = "view"
          /\ (job'[j].pc = "done" /\ job[j].pc # "done") => job[j].pc = "upload"
          /\ (rec'[j].status = COMPLETED /\ rec[j].status # COMPLETED) =>
                 /\ job[j].pc = "upload"
                 /\ job'[j].pc = "done"
                 /\ rec'[j].url = StorageUrl(j)]_vars

\* A task went through every step and its record is completed.
C33_Witness ==
    \E j \in Jobs :
        /\ job[j].pc = "done"
        /\ rec[j].status = COMPLETED
        /\ rec[j].url = StorageUrl(j)
        /\ rec[j].error = None

\* C34: a completed record has the URL the storage upload returned for it
\* and no error text; a failed record has no output URL.
C34_TerminalRecordFields ==
    \A j \in Jobs :
        /\ rec[j].status = COMPLETED =>
               (rec[j].url = StorageUrl(j) /\ rec[j].url # None /\ rec[j].error = None)
        /\ rec[j].status = FAILED => rec[j].url = None

\* One record is completed with its URL and another one is failed.
C34_Witness ==
    \E j, k \in Jobs :
        /\ rec[j].status = COMPLETED
        /\ rec[j].url = StorageUrl(j)
        /\ rec[k].status = FAILED
        /\ rec[k].error # None

\* C35: a receive that times out takes the loop back to its elapsed-time
\* check and writes nothing; the timeout error is raised by that check alone,
\* when the elapsed time is over the declared timeout.
C35_ReceiveTimeoutContinues ==
    [][\A j \in Jobs :
          /\ (job[j].pc = "recv" /\ job'[j] # job[j]) =>
                 /\ rec'[j] = rec[j]
                 /\ \/ job'[j].pc = "loop"
                    \/ job'[j].pc = "recv"
                    \/ /\ job'[j].pc = "history"
                       /\ EndsWait(job'[j].last_ev)
                    \/ /\ job'[j].pc = "except"
                       /\ job'[j].exc # TimeoutMsg(ImageTimeout)
                       /\ job'[j].exc # TimeoutMsg(VideoTimeout)
          /\ (job'[j].pc = "except" /\ job[j].pc # "except"
                 /\ job'[j].exc \in {TimeoutMsg(ImageTimeout), TimeoutMsg(VideoTimeout)}) =>
                 /\ job[j].pc = "loop"
                 /\ job[j].elapsed > TimeoutOf(job[j])]_vars

\* A wait which got no frame of its own is back at the elapsed-time check
\* with time elapsed under the declared timeout of the video workflow.
C35_Witness ==
    \E j \in Jobs :
        /\ job[j].pc = "loop"
        /\ job[j].phase = "video"
        /\ job[j].elapsed > 0
        /\ job[j].elapsed <= VideoTimeout
        /\ job[j].last_ev = NoEvent
        /\ ~job[j].skipped

\* Every pod of the map m that has a URL has had its probe answered.
AllProbed(m) == \A k \in 1..Len(m) : m[k].comfyui_url # NoUrl => m[k].probe # ""

\* C32: while refresh_pods awaits its listing and its probes the registry
\* keeps the map it had, which a reader sees whole; the map is replaced in one
\* step, by the listing whose probes have all returned; the registry and a
\* reader's view of it never hold a pod with a URL whose probe has not
\* returned.
C32_MapReplacedAfterProbes ==
    /\ [](AllProbed(pods) /\ AllProbed(last_get.snap))
    /\ [][/\ (call.pc \in {"listing", "probing"} /\ call'.pc = "probing") => pods' = pods
          /\ pods' # pods =>
                /\ call.pc = "probing"
                /\ call.probed = 1..Len(call.listed)
                /\ AllProbed(call.listed)
                /\ pods' = DictFrom(<<>>, call.listed)
          /\ (last_get' # last_get /\ call.pc \in {"listing", "probing"}) =>
                last_get'.snap = pods]_vars

\* A refresh has probed one pod of its new listing and not yet another,
\* while the registry holds an earlier map, which a reader has filtered.
C32_Witness ==
    /\ call.pc = "probing"
    /\ \E a, b \in 1..Len(call.listed) :
          /\ a \in call.probed /\ call.listed[a].probe # ""
          /\ b \notin call.probed
    /\ pods # <<>>
    /\ pods # DictFrom(<<>>, call.listed)
    /\ last_get.asked
    /\ ~last_get.fetched
    /\ last_get.snap = pods

\* C36: for a validated video request without source_image_url the image
\* request built from its prompt, width and height is accepted, and the image
\* workflow is submitted.
C36_SourceImageRequestBuilt ==
    (build.fn = "source" /\ build.done /\ build.request.source_image_url \in {None, ""}) =>
        (build.outcome = "submitted" /\ ImageRequestValid(build.image_request))

\* C37: a generation record is created, pending, and its task started only
\* by a request whose character exists, is ready and has a lora_path, and
\* the answer is then 202; a request for any other character is answered 404
\* (no row) or 400 and creates no record and starts no task.
C37_OnlyReadyCharacterStartsJob ==
    [][/\ \A j \in Jobs :
             (rec'[j] # rec[j] \/ job'[j] # job[j]) =>
                 /\ rec[j] = NoRecord
                 /\ rec'[j] = NewRecord
                 /\ job'[j].pc = "start"
                 /\ resp' = [character |-> resp'.character, route |-> job'[j].kind,
                             code |-> 202, detail |-> "", id |-> j]
                 /\ training[resp'.character].status = CHAR_READY
                 /\ training[resp'.character].lora_path \notin {None, ""}
       /\ resp' # resp =>
             LET t == training[resp'.character]
             IN  /\ (t.status = CHAR_READY /\ t.lora_path \notin {None, ""}) =>
                        (resp'.code = 202 /\ rec'[resp'.id] = NewRecord
                            /\ rec[resp'.id] = NoRecord)
                 /\ t.status = "absent" =>
                        (resp'.code = 404 /\ resp'.id = 0 /\ rec' = rec /\ job' = job)
                 /\ (t.status # "absent"
                        /\ ~(t.status = CHAR_READY /\ t.lora_path \notin {None, ""})) =>
                        (resp'.code = 400 /\ resp'.id = 0 /\ rec' = rec /\ job' = job)]_vars

\* One request was accepted and its task is to start; the last request,
\* for a character in training, was answered 400 and left no record.
C37_Witness ==
    /\ rec[1] = NewRecord
    /\ job[1].pc = "start"
    /\ rec[2] = NoRecord
    /\ job[2].pc = "idle"
    /\ resp.code = 400
    /\ resp.id = 0
    /\ training[resp.character].status = CHAR_TRAINING

\* The entries of ports that map private port 8188, are public and have an
\* ip and a public port.
Usable(ports) ==
    {k \in 1..Len(ports) : /\ ports[k].privatePort = 8188
                           /\ ports[k].isIpPublic
                           /\ ports[k].ip # ""
                           /\ ports[k].publicPort # 0}

\* C38: list_pods gives a pod the URL of the first of its port entries that
\* maps private port 8188, is public and has an ip and a public port, and no
\* URL when there is no such entry; a pod without URL is never healthy, in
\* the listing or in the registry, and is never the pod selected.
C38_EndpointFromPorts ==
    /\ call.pc = "probing" =>
          \A k \in 1..Len(call.data) :
              LET ports == call.data[k].ports
                  pod == call.listed[k]
              IN  /\ (pod.comfyui_url # NoUrl) <=> (Usable(ports) # {})
                  /\ Usable(ports) # {} =>
                        \E f \in Usable(ports) :
                            /\ \A g \in Usable(ports) : f <= g
                            /\ pod.comfyui_url =
                                  Url("http", ports[f].ip \o ":" \o ToString(ports[f].publicPort), "")
                  /\ pod.comfyui_url = NoUrl => (~pod.is_healthy /\ pod.probe = "")
    /\ \A k \in 1..Len(pods) :
          pods[k].comfyui_url = NoUrl => (~pods[k].is_healthy /\ pods[k].probe = "")
    /\ last_get.picked # NoPod => last_get.picked.comfyui_url # NoUrl
    /\ (last_get.asked /\ last_get.picked = NoPod) => last_get.url = comfyui_http_url

\* A pod whose first public entry for 8188 has no ip got the URL of its
\* second entry.
C38_Witness ==
    /\ call.pc = "probing"
    /\ Len(call.data) = 1
    /\ Len(call.data[1].ports) = 2
    /\ call.data[1].ports[1].privatePort = 8188
    /\ call.data[1].ports[1].isIpPublic
    /\ call.data[1].ports[1].ip = ""
    /\ Usable(call.data[1].ports) = {2}
    /\ call.listed[1].comfyui_url = Url("http", "10.0.0.2:30000", "")
    /\ call.listed[1].is_healthy

=============================================================================
